---- MODULE Spec2Model ----
(***************************************************************************)
(* Verification model of the weather bulletin backend (chat-backend /      *)
(* weathergfs).  The specifications share the variables below:             *)
(*   SpecAlerts   - the storm and unusual-phenomenon classifiers           *)
(*   SpecBulletin - generate_bulletin, the bulletin composer               *)
(*   SpecChat     - the /v1/chat handler (resolve_region + bulletin)       *)
(*   SpecFetch    - open_meteo.fetch_forecast, the retry loop              *)
(*                  (FairSpecFetch: the same with its steps being taken)   *)
(*   SpecLookup   - app_utils.resolve_region, stage by stage               *)
(*   SpecText     - app_utils.normalize_query on character strings         *)
(*   SpecWind     - wind.compute_wind_metrics (Beaufort scale)             *)
(*   SpecHeat     - meteorology.compute_heat_index                         *)
(*   SpecWS       - WeatherService.fetch_forecast, the second retry loop   *)
(*   SpecReads    - the three section reads of generate_bulletin           *)
(*   SpecOverview - daily_overview: today's extremes and their alerts      *)
(*   SpecRain     - rain_openmeteo (24-hour series) and the 24-hour table  *)
(*   SpecTrend    - trend_10days: daily aggregation and the rain override  *)
(* Values are integers (m/s, mm, hPa, degrees C); sleeps are counted in    *)
(* half seconds so that 1.5 s is the integer 3.                            *)
(***************************************************************************)
EXTENDS Integers, Sequences, FiniteSets, TLC

VARIABLES
    current,          \* the current record handed to the classifiers
    hourly_df,        \* the hourly table (a sequence of rows)
    daily_df,         \* the daily table (a sequence of rows)
    official_alerts,  \* the externally supplied official-alert list
    storm_alerts,     \* last result of check_storm_alert
    unusual_alerts,   \* last result of check_unusual_alert
    env,              \* outcomes of the collaborators of generate_bulletin
    bulletin_result,  \* last result of generate_bulletin
    request,          \* the /v1/chat request being served
    response,         \* the JSONResponse of /v1/chat
    attempt,          \* fetch_forecast: loop index of the next attempt
    responses,        \* fetch_forecast: upstream outcomes received so far
    slept,            \* fetch_forecast: durations passed to time.sleep
    data,             \* fetch_forecast: the returned value
    pc,               \* fetch_forecast: position of the call
    max_retries,      \* fetch_forecast: config.MAX_RETRIES of the deployment
    collab,           \* outcomes of the collaborators of the /v1/chat handler
    args,             \* resolve_region: the arguments of the call
    geocoder,         \* resolve_region: how the Nominatim request would end
    stage,            \* resolve_region: the stage the call is at
    consulted,        \* resolve_region: the stages evaluated so far, in order
    region_info,      \* resolve_region: the returned dict
    raw_text,         \* normalize_query: the input string
    passes,           \* normalize_query: results of successive applications
    wind_in,          \* compute_wind_metrics: the wind_speed_ms argument
    wind_metrics,     \* compute_wind_metrics: the returned dict
    heat_in,          \* compute_heat_index: the arguments of the call
    heat_index,       \* compute_heat_index: the returned value
    ws_max_retries,   \* WeatherService.fetch_forecast: the max_retries argument
    ws_attempt,       \* WeatherService.fetch_forecast: the loop variable
    ws_outcomes,      \* WeatherService.fetch_forecast: how each request ended
    ws_sleeps,        \* WeatherService.fetch_forecast: arguments of time.sleep
    ws_result,        \* WeatherService.fetch_forecast: the returned value
    ws_pc,            \* WeatherService.fetch_forecast: position of the call
    upstream,         \* section reads: the payload the provider serves now
    sections,         \* section reads: what each read_cache call returned
    overview_in,      \* daily overview: the tables and the current record
    overview_out,     \* daily overview: the computed extremes and alerts
    rain_in,          \* rain service: provider response, clock, hourly table
    rain_out,         \* rain service: the 24-hour result and the table lines
    trend_in,         \* 10-day trend: hourly samples, start, external rain
    trend_out         \* 10-day trend: the day records

alertVars    == <<current, hourly_df, daily_df, official_alerts, storm_alerts, unusual_alerts>>
bulletinVars == <<env, bulletin_result>>
chatVars     == <<request, response, collab>>
fetchVars    == <<attempt, responses, slept, data, pc, max_retries>>
lookupVars   == <<args, geocoder, stage, consulted, region_info>>
textVars     == <<raw_text, passes>>
windVars     == <<wind_in, wind_metrics>>
heatVars     == <<heat_in, heat_index>>
coreVars     == <<alertVars, bulletinVars, chatVars, fetchVars>>
wsVars       == <<ws_max_retries, ws_attempt, ws_outcomes, ws_sleeps, ws_result, ws_pc>>
readVars     == <<upstream, sections>>
overviewVars == <<overview_in, overview_out>>
rainVars     == <<rain_in, rain_out>>
trendVars    == <<trend_in, trend_out>>
moreVars     == <<wsVars, readVars, overviewVars, rainVars, trendVars>>
earlierVars  == <<coreVars, lookupVars, textVars, windVars, heatVars>>
restVars     == <<lookupVars, textVars, windVars, heatVars, moreVars>>
vars         == <<coreVars, restVars>>

-----------------------------------------------------------------------------
(* Bounds of the model *)

MaxHourlyRows == 1
MaxDailyRows  == 2
MaxRetries    == 3
MaxTextLen    == 3
MaxPasses     == 2
MaxWindSpeed  == 3400
MaxWsRetries  == 4
MaxPayloads   == 3
MaxTodayRows  == 2
MaxProviderHours == 48
MaxTrendDay   == 11

-----------------------------------------------------------------------------
(* Cells: what a dict entry or a DataFrame cell can hold.                  *)
(*   num    - an int/float value                                           *)
(*   nan    - float NaN, the no-value marker of a numeric column           *)
(*   none   - Python None (dict key missing, or None in an object column)  *)
(*   str    - a non-numeric string entry                                   *)
(*   absent - the column does not exist in the table                       *)

Num(x)     == [k |-> "num", v |-> x]
NaNCell    == [k |-> "nan", v |-> 0]
NoneCell   == [k |-> "none", v |-> 0]
StrCell    == [k |-> "str", v |-> 0]
AbsentCell == [k |-> "absent", v |-> 0]

\* isinstance(x, (int, float)): true of numbers and of float NaN
IsNumber(c) == c.k \in {"num", "nan"}
\* x >= th and x <= th on floats: every comparison with NaN is False
GE(c, th) == c.k = "num" /\ c.v >= th
LE(c, th) == c.k = "num" /\ c.v <= th

RECURSIVE SeqsUpTo(_, _)
SeqsUpTo(S, n) ==
    IF n = 0 THEN {<<>>}
    ELSE LET shorter == SeqsUpTo(S, n - 1)
         IN shorter \cup {Append(s, x) : s \in {t \in shorter : Len(t) = n - 1}, x \in S}

-----------------------------------------------------------------------------
(* Thresholds *)

LOW_PRESSURE_FORMATION == 1000
STORM_PRESSURE_ALERT   == 990
STORM_WIND_ALERT       == 17
STORM_WIND_EXTREME     == 25
STORM_RAIN_ALERT       == 100
STRONG_WIND            == 10

TEMP_EXTREME == 40
WIND_EXTREME == 25
RAIN_EXTREME == 100
PRESSURE_LOW == 990

-----------------------------------------------------------------------------
(* pandas.DataFrame(records): a column that holds a number and no string   *)
(* is a float column, whose None and missing entries become NaN; a column  *)
(* missing from some records only is filled with NaN; a column missing     *)
(* from every record does not exist.                                       *)

Fields == {"temp_c", "wind_speed_ms", "rain_mm", "mslp_hpa"}

ColumnCell(records, f, c) ==
    LET col == {records[i][f].k : i \in 1..Len(records)}
        float_column == "str" \notin col /\ col \cap {"num", "nan", "absent"} # {}
    IN  IF col = {"absent"} THEN c
        ELSE IF c.k = "absent" THEN NaNCell
        ELSE IF c.k = "none" /\ float_column THEN NaNCell
        ELSE c

DataFrame(records) ==
    [i \in 1..Len(records) |->
        [f \in DOMAIN records[i] |->
            IF f \in Fields THEN ColumnCell(records, f, records[i][f])
            ELSE records[i][f]]]

\* the comparison df[col] >= th over a whole column: pandas raises TypeError
\* when the column holds a string; None and NaN compare False
ColumnCompareRaises(df, f) == \E i \in 1..Len(df) : df[i][f].k = "str"

\* row[col] >= th on one row: Python raises TypeError for None and for a string
RowCompareRaises(row, f) == row[f].k \in {"none", "str"}

-----------------------------------------------------------------------------
(* services/storm_alert.py *)

\* A statement of the storm classifier: its wording, the value it quotes and
\* the daily row it is about (0 for the current record).
Statement(text, val, row) == [text |-> text, val |-> val, row |-> row]

\* "word in s" for the two words the classifier searches its statements for
Contains(text, word) ==
    \/ word = "Ap suat" /\ text \in {"ap_suat_rat_thap", "ap_suat_thap"}
    \/ word = "Gio"     /\ text \in {"gio_bao_rat_manh", "gio_bao", "gio_manh"}

\* classify_wind: the wording for a wind speed, "" when below every band
classify_wind(wind) ==
    IF GE(wind, STORM_WIND_EXTREME) THEN "gio_bao_rat_manh"
    ELSE IF GE(wind, STORM_WIND_ALERT) THEN "gio_bao"
    ELSE IF GE(wind, STRONG_WIND) THEN "gio_manh"
    ELSE ""

\* float(wind_raw) if wind_raw is not None else 0.0, with TypeError and
\* ValueError swallowed (wind keeps its initial 0.0)
WindOf(cur) ==
    LET wind_raw == cur.wind_speed_ms
    IN  IF wind_raw.k \in {"none", "str"} THEN Num(0) ELSE wind_raw

\* current.get("mslp_hpa") if it is not None else current.get("mslp")
PressureOf(cur) == IF cur.mslp_hpa.k # "none" THEN cur.mslp_hpa ELSE cur.mslp

PressureSignals(pressure) ==
    IF ~IsNumber(pressure) THEN <<>>
    ELSE IF LE(pressure, STORM_PRESSURE_ALERT)
         THEN <<Statement("ap_suat_rat_thap", pressure.v, 0)>>
    ELSE IF LE(pressure, LOW_PRESSURE_FORMATION)
         THEN <<Statement("ap_suat_thap", pressure.v, 0)>>
    ELSE <<>>

WindSignals(wind) ==
    LET wind_signal == classify_wind(wind)
    IN  IF wind_signal # "" THEN <<Statement(wind_signal, wind.v, 0)>> ELSE <<>>

\* the rows of daily_df[daily_df["rain_mm"] >= STORM_RAIN_ALERT], in order
RECURSIVE HeavyRainSignals(_, _)
HeavyRainSignals(df, i) ==
    IF i > Len(df) THEN <<>>
    ELSE IF GE(df[i].rain_mm, STORM_RAIN_ALERT)
         THEN <<Statement("mua_cuc_lon", df[i].rain_mm.v, i)>> \o HeavyRainSignals(df, i + 1)
    ELSE HeavyRainSignals(df, i + 1)

\* isinstance(daily_df, DataFrame) and not daily_df.empty and "rain_mm" in columns
HasRainColumn(df) == Len(df) > 0 /\ df[1].rain_mm.k # "absent"

StormResult(kind, category, header, official, signals) ==
    [kind |-> kind, category |-> category, header |-> header,
     official |-> official, signals |-> signals]

StormRaised == StormResult("raise", "", "TypeError", <<>>, <<>>)
StormIdle   == StormResult("idle", "", "", <<>>, <<>>)

\* step 5 of check_storm_alert: the category of a list of signals
Classify(signals, wind, heavy_rain_detected) ==
    LET has_pressure == \E i \in 1..Len(signals) : Contains(signals[i].text, "Ap suat")
        has_wind     == \E i \in 1..Len(signals) : Contains(signals[i].text, "Gio")
    IN  IF signals = <<>>
        THEN StormResult("result", "no_storm", "khong_co_dau_hieu", <<>>, signals)
        ELSE IF heavy_rain_detected /\ GE(wind, STORM_WIND_ALERT)
        THEN StormResult("result", "storm_formed", "bao_mua_cuc_lon_gio_manh", <<>>, signals)
        ELSE IF GE(wind, STORM_WIND_EXTREME)
        THEN StormResult("result", "storm_formed", "bao_da_hinh_thanh", <<>>, signals)
        ELSE IF has_pressure /\ has_wind
        THEN StormResult("result", "storm_formed", "bao_da_hinh_thanh", <<>>, signals)
        ELSE IF has_pressure /\ ~has_wind
        THEN StormResult("result", "tropical_depression", "ap_thap_nhiet_doi", <<>>, signals)
        ELSE StormResult("result", "storm_risk", "nguy_co_bao", <<>>, signals)

check_storm_alert(cur, df, official) ==
    IF official # <<>>
    THEN StormResult("official", "", "canh_bao_chinh_thuc_nchmf", official, <<>>)
    ELSE LET wind  == WindOf(cur)
             rains == IF HasRainColumn(df) THEN HeavyRainSignals(df, 1) ELSE <<>>
             signals == PressureSignals(PressureOf(cur)) \o WindSignals(wind) \o rains
         IN  IF HasRainColumn(df) /\ ColumnCompareRaises(df, "rain_mm")
             THEN StormRaised
             ELSE Classify(signals, wind, rains # <<>>)

-----------------------------------------------------------------------------
(* services/unusual_alert.py *)

UNUSUAL_EVENTS ==
    <<"sam set", "dong to", "mua da", "loc xoay", "mua axit", "suong mu day dac",
      "hien tuong ky la", "dong dat", "song than", "nui lua", "bao cat", "khoi bui",
      "bau troi xuat hien vat la", "anh sang bat thuong", "mua thien thach",
      "suong muoi", "han han cuc doan", "chay rung">>

\* A statement of the unusual-phenomenon classifier: what it reports, the
\* granularity ("current", "theo gio", "theo ngay") and the row it is about.
Alert(text, label, row) == [text |-> text, label |-> label, row |-> row]

\* for event in UNUSUAL_EVENTS: if event in desc: ...   (desc is modelled by
\* the set of event names its text contains)
RECURSIVE EventAlerts(_, _, _, _)
EventAlerts(desc, label, row, j) ==
    IF j > Len(UNUSUAL_EVENTS) THEN <<>>
    ELSE (IF UNUSUAL_EVENTS[j] \in desc
          THEN <<Alert(UNUSUAL_EVENTS[j], label, row)>> ELSE <<>>)
         \o EventAlerts(desc, label, row, j + 1)

\* step 2: the four numeric checks on the current record
CurrentAlerts(cur) ==
    (IF IsNumber(cur.temp_c) /\ GE(cur.temp_c, TEMP_EXTREME)
     THEN <<Alert("nhiet_do", "current", 0)>> ELSE <<>>)
    \o (IF IsNumber(cur.wind_speed_ms) /\ GE(cur.wind_speed_ms, WIND_EXTREME)
        THEN <<Alert("gio", "current", 0)>> ELSE <<>>)
    \o (IF IsNumber(cur.rain_mm) /\ GE(cur.rain_mm, RAIN_EXTREME)
        THEN <<Alert("mua", "current", 0)>> ELSE <<>>)
    \o (IF IsNumber(cur.mslp_hpa) /\ LE(cur.mslp_hpa, PRESSURE_LOW)
        THEN <<Alert("ap_suat", "current", 0)>> ELSE <<>>)

\* the numeric checks on one row of a table: temperature, wind and rain
RowNumericAlerts(row, label, i) ==
    (IF row.temp_c.k # "absent" /\ GE(row.temp_c, TEMP_EXTREME)
     THEN <<Alert("nhiet_do", label, i)>> ELSE <<>>)
    \o (IF row.wind_speed_ms.k # "absent" /\ GE(row.wind_speed_ms, WIND_EXTREME)
        THEN <<Alert("gio", label, i)>> ELSE <<>>)
    \o (IF row.rain_mm.k # "absent" /\ GE(row.rain_mm, RAIN_EXTREME)
        THEN <<Alert("mua", label, i)>> ELSE <<>>)

\* TypeError out of one of the row comparisons
RowRaises(row) ==
    \E f \in {"temp_c", "wind_speed_ms", "rain_mm"} :
        row[f].k # "absent" /\ RowCompareRaises(row, f)

\* for _, row in df.iterrows(): ...
RECURSIVE TableAlerts(_, _, _)
TableAlerts(df, label, i) ==
    IF i > Len(df) THEN [raised |-> FALSE, alerts |-> <<>>]
    ELSE IF RowRaises(df[i]) THEN [raised |-> TRUE, alerts |-> <<>>]
    ELSE LET rest == TableAlerts(df, label, i + 1)
         IN  [raised |-> rest.raised,
              alerts |-> EventAlerts(df[i].weather_desc, label, i, 1)
                         \o RowNumericAlerts(df[i], label, i) \o rest.alerts]

UnusualResult(kind, official, alerts) ==
    [kind |-> kind, official |-> official, alerts |-> alerts]

UnusualRaised == UnusualResult("raise", <<>>, <<>>)
UnusualIdle   == UnusualResult("idle", <<>>, <<>>)

\* variant that evaluates its own signals before looking at the official list
check_unusual_alert_official_last(cur, hdf, ddf, official) ==
    LET h == TableAlerts(hdf, "theo gio", 1)
        d == TableAlerts(ddf, "theo ngay", 1)
    IN  IF h.raised \/ d.raised THEN UnusualRaised
        ELSE IF official # <<>> THEN UnusualResult("official", official, <<>>)
        ELSE UnusualResult("none", <<>>, <<>>)

check_unusual_alert(cur, hdf, ddf, official) ==
    IF official # <<>>
    THEN UnusualResult("official", official, <<>>)
    ELSE LET h == TableAlerts(hdf, "theo gio", 1)
             d == TableAlerts(ddf, "theo ngay", 1)
             alerts == CurrentAlerts(cur) \o EventAlerts(cur.weather_desc, "current", 0, 1)
                       \o h.alerts \o d.alerts
         IN  IF h.raised \/ d.raised THEN UnusualRaised
             ELSE IF alerts = <<>> THEN UnusualResult("none", <<>>, <<>>)
             ELSE UnusualResult("alerts", <<>>, alerts)

-----------------------------------------------------------------------------
(* Inputs of the classifiers *)

NoEvents == {}

\* a record just on the safe side of every threshold
BenignRow ==
    [temp_c |-> Num(TEMP_EXTREME - 1), wind_speed_ms |-> Num(STRONG_WIND - 1),
     rain_mm |-> Num(RAIN_EXTREME - 1), mslp_hpa |-> Num(LOW_PRESSURE_FORMATION + 1),
     weather_desc |-> NoEvents]

BenignCurrent ==
    [temp_c |-> Num(TEMP_EXTREME - 1), wind_speed_ms |-> Num(STRONG_WIND - 1),
     rain_mm |-> Num(RAIN_EXTREME - 1), mslp_hpa |-> Num(LOW_PRESSURE_FORMATION + 1),
     mslp |-> NoneCell, weather_desc |-> NoEvents]

\* the value of a field exactly at its extreme threshold
Extreme(f) ==
    CASE f = "temp_c"        -> Num(TEMP_EXTREME)
      [] f = "wind_speed_ms" -> Num(WIND_EXTREME)
      [] f = "rain_mm"       -> Num(RAIN_EXTREME)
      [] f = "mslp_hpa"      -> Num(PRESSURE_LOW)

Malformed == {NoneCell, NaNCell, StrCell}

\* storm-shaped inputs: every pressure band against every wind band against
\* every table of daily rain totals
StormPressures ==
    Malformed \cup {Num(STORM_PRESSURE_ALERT), Num(STORM_PRESSURE_ALERT + 1),
                    Num(LOW_PRESSURE_FORMATION), Num(LOW_PRESSURE_FORMATION + 1)}
StormWinds ==
    Malformed \cup {Num(STRONG_WIND - 1), Num(STRONG_WIND), Num(STORM_WIND_ALERT - 1),
                    Num(STORM_WIND_ALERT), Num(STORM_WIND_ALERT + 1),
                    Num(STORM_WIND_EXTREME - 1), Num(STORM_WIND_EXTREME)}
StormRains ==
    Malformed \cup {AbsentCell, Num(STORM_RAIN_ALERT - 1), Num(STORM_RAIN_ALERT),
                    Num(STORM_RAIN_ALERT + 20)}

StormCurrents ==
    {[BenignCurrent EXCEPT !.mslp_hpa = p, !.wind_speed_ms = w] :
        p \in StormPressures, w \in StormWinds}
    \cup {[BenignCurrent EXCEPT !.mslp_hpa = NoneCell, !.mslp = Num(STORM_PRESSURE_ALERT + 5),
                                !.wind_speed_ms = w] : w \in StormWinds}
StormDailyRows == {[BenignRow EXCEPT !.rain_mm = c] : c \in StormRains}

\* unusual-shaped inputs: one field of one record off the benign value
RowVariants ==
    {BenignRow, [BenignRow EXCEPT !.weather_desc = {"sam set"}]}
    \cup UNION {{[BenignRow EXCEPT ![f] = c] : c \in Malformed \cup {AbsentCell, Extreme(f)}} :
                f \in Fields}
CurrentVariants ==
    {BenignCurrent, [BenignCurrent EXCEPT !.weather_desc = {"sam set", "mua da"}]}
    \cup UNION {{[BenignCurrent EXCEPT ![f] = c] : c \in Malformed \cup {Extreme(f)}} :
                f \in Fields}
FewRows ==
    {BenignRow, [BenignRow EXCEPT !.temp_c = Extreme("temp_c")],
     [BenignRow EXCEPT !.mslp_hpa = Extreme("mslp_hpa")]}

Tables(rows, n) == {DataFrame(r) : r \in SeqsUpTo(rows, n)}

AlertInputs ==
    {[current |-> c, hourly |-> <<>>, daily |-> d] :
        c \in StormCurrents, d \in Tables(StormDailyRows, MaxDailyRows)}
    \cup {[current |-> c, hourly |-> <<>>, daily |-> <<>>] : c \in CurrentVariants}
    \cup {[current |-> BenignCurrent, hourly |-> h, daily |-> <<>>] :
            h \in Tables(RowVariants, MaxHourlyRows)}
    \cup {[current |-> BenignCurrent, hourly |-> <<>>, daily |-> d] :
            d \in Tables(RowVariants, MaxDailyRows)}
    \cup {[current |-> c, hourly |-> <<h>>, daily |-> <<d>>] :
            c \in CurrentVariants, h \in FewRows, d \in FewRows}

OfficialLists ==
    {<<>>, <<"bao so 3">>, <<"bao so 3", "ap thap nhiet doi">>,
     <<"ap thap nhiet doi", "bao so 3">>}

-----------------------------------------------------------------------------
(* services/bulletin.py *)

\* what generate_bulletin hands back: the returned object, or the exception
\* that leaves it
BulletinResult(status, message, hint, text, cur, storm, unusual) ==
    [status |-> status, message |-> message, hint |-> hint, text |-> text,
     current |-> cur, storm |-> storm, unusual |-> unusual]

BulletinIdle   == BulletinResult("idle", "", "", <<>>, BenignCurrent, StormIdle, UnusualIdle)
BulletinRaised == BulletinResult("raised", "", "", <<>>, BenignCurrent, StormIdle, UnusualIdle)

\* lines 52-57
NoDataError ==
    BulletinResult("error", "khong_co_du_lieu_tu_nguon", "kiem_tra_ket_noi_api",
                   <<>>, BenignCurrent, StormIdle, UnusualIdle)
\* lines 183-188
SystemError ==
    BulletinResult("error", "loi_he_thong_khi_sinh_ban_tin", "kiem_tra_ket_noi_api_va_du_lieu",
                   <<>>, BenignCurrent, StormIdle, UnusualIdle)

StormPlaceholder   == StormResult("placeholder", "", "khong_the_xac_dinh_trang_thai_bao", <<>>, <<>>)
UnusualPlaceholder == UnusualResult("placeholder", <<>>, <<>>)

\* safe_float(val, default): float(val), or default on TypeError / ValueError
safe_float(val, default) == IF val.k \in {"none", "str", "absent"} THEN default ELSE val

\* x if isinstance(x, pd.DataFrame) else pd.DataFrame()
FrameOf(read) == IF read.kind = "data" THEN read.rows ELSE <<>>

\* current_df.iloc[0].to_dict() if not current_df.empty else {}
EmptyDict ==
    [temp_c |-> NoneCell, wind_speed_ms |-> NoneCell, rain_mm |-> AbsentCell,
     mslp_hpa |-> NoneCell, mslp |-> NoneCell, weather_desc |-> NoEvents]
CurrentOf(current_df) == IF current_df # <<>> THEN current_df[1] ELSE EmptyDict

\* step 3: current["rain_mm"] after the rain stage, on either branch
\* (current.get("rain_mm", 0.0) is 0.0 only when the key is missing)
RainStage(cur, rain) ==
    IF rain.kind = "ok"
    THEN [cur EXCEPT !.rain_mm =
             safe_float(rain.current, IF cur.rain_mm.k = "absent" THEN Num(0) ELSE cur.rain_mm)]
    ELSE [cur EXCEPT !.rain_mm = safe_float(cur.rain_mm, Num(0))]

\* steps 9 and 10: a classifier's answer, or the placeholder when it raises
StormStage(cur, ddf) ==
    LET r == check_storm_alert(cur, ddf, <<>>)
    IN  IF r.kind = "raise" THEN StormPlaceholder ELSE r
UnusualStage(cur, hdf, ddf) ==
    LET r == check_unusual_alert(cur, hdf, ddf, <<>>)
    IN  IF r.kind = "raise" THEN UnusualPlaceholder ELSE r

\* variant of the guard of line 51 that never short-circuits
NeverAllEmpty(current_df, hdf, ddf) == FALSE

\* current_df.empty and hourly_df.empty and daily_df.empty
AllEmpty(current_df, hdf, ddf) == current_df = <<>> /\ hdf = <<>> /\ ddf = <<>>

\* the body of the outer try of generate_bulletin, lines 39-179
bulletin_try_block(e) ==
    LET current_df == FrameOf(e.current_read)
        hdf        == FrameOf(e.hourly_read)
        ddf        == FrameOf(e.daily_read)
        cur        == RainStage(CurrentOf(current_df), e.rain)
        text ==
            <<"header", "current_conditions">>
            \o (IF hdf # <<>> THEN <<"daily_overview", "hourly_forecast", "trend_10days">>
                ELSE <<"no_hourly_overview", "no_hourly_forecast", "no_hourly_trend">>)
            \o <<"storm", "unusual">>
    IN  IF "raise" \in {e.current_read.kind, e.hourly_read.kind, e.daily_read.kind}
        THEN BulletinRaised
        ELSE IF AllEmpty(current_df, hdf, ddf) THEN NoDataError
        ELSE IF hdf # <<>> /\ e.ensure_hourly = "raise" THEN BulletinRaised
        ELSE IF ddf # <<>> /\ e.ensure_daily = "raise" THEN BulletinRaised
        ELSE IF e.header = "raise" THEN BulletinRaised
        ELSE IF e.current_block = "raise" THEN BulletinRaised
        ELSE IF hdf # <<>> /\ e.overview = "raise" THEN BulletinRaised
        ELSE IF hdf # <<>> /\ e.hourly_block = "raise" THEN BulletinRaised
        ELSE IF hdf # <<>> /\ e.trend = "raise" THEN BulletinRaised
        ELSE BulletinResult("ok", "", "", text, cur,
                            StormStage(cur, ddf), UnusualStage(cur, hdf, ddf))

\* variant without the handler of lines 181-188
generate_bulletin_unguarded(e) == bulletin_try_block(e)

generate_bulletin(e) ==
    LET r == bulletin_try_block(e)
    IN  IF r.status = "raised" THEN SystemError ELSE r

-----------------------------------------------------------------------------
(* services/app_utils.py: region resolution *)
(* An Optional value is <<>> (None) or <<v>>.  Coordinates are whole       *)
(* degrees.  Names are atomic strings; the gazetteer modules                *)
(* vietnam_provinces and vietnam_wards are not part of the sources, a small *)
(* gazetteer stands for them.                                               *)

PROVINCES == <<"Ha Noi", "Da Nang">>
WARDS ==
    <<[name |-> "xa Lanh Ngoc Quang Nam", lat |-> <<15>>, lon |-> <<108>>],
      [name |-> "xa Tra My Quang Nam",    lat |-> <<>>,   lon |-> <<>>],
      [name |-> "xa Phuoc Hiep Quang Nam", lat |-> <<15>>, lon |-> <<>>]>>

\* normalize_query on the names of the model: diacritics and case removed,
\* punctuation turned into blanks, blanks collapsed
normalize_query(text) ==
    CASE text = "Ha Noi"                  -> "ha noi"
      [] text = "HA-NOI"                  -> "ha noi"
      [] text = "Da Nang"                 -> "da nang"
      [] text = "Da Nanh"                 -> "da nanh"
      [] text = "xa Lanh Ngoc Quang Nam"  -> "xa lanh ngoc quang nam"
      [] text = "xa Lanh Ngok Quang Nam"  -> "xa lanh ngok quang nam"
      [] text = "xa Tra My Quang Nam"     -> "xa tra my quang nam"
      [] text = "xa Phuoc Hiep Quang Nam" -> "xa phuoc hiep quang nam"
      [] OTHER                            -> text

\* pairs of normalized names whose difflib ratio reaches the cutoff 0.85
Similar ==
    {<<"da nanh", "da nang">>, <<"xa lanh ngok quang nam", "xa lanh ngoc quang nam">>}

\* get_close_matches(query, names, n=1, cutoff=0.85)
get_close_matches(query, names) ==
    LET hits == {i \in 1..Len(names) : names[i] = query \/ <<query, names[i]>> \in Similar}
    IN  IF hits = {} THEN <<>>
        ELSE <<names[CHOOSE i \in hits : \A j \in hits : i <= j]>>

RegionInfo(name, lat, lon, source) == [name |-> name, lat |-> lat, lon |-> lon, source |-> source]

\* the first index of a list whose entry satisfies a test, 0 when none does
FirstProvince(q) ==
    LET hits == {i \in 1..Len(PROVINCES) : normalize_query(PROVINCES[i]) = q}
    IN  IF hits = {} THEN 0 ELSE CHOOSE i \in hits : \A j \in hits : i <= j
FirstWard(q) ==
    LET hits == {i \in 1..Len(WARDS) : normalize_query(WARDS[i].name) = q}
    IN  IF hits = {} THEN 0 ELSE CHOOSE i \in hits : \A j \in hits : i <= j

\* lines 75-81 and 112-122: a ward entry, completed by the geocoder when a
\* coordinate is missing
WardInfo(ward, osm) ==
    IF (ward.lat = <<>> \/ ward.lon = <<>>) /\ osm # <<>>
    THEN RegionInfo(ward.name, <<osm[1].lat>>, <<osm[1].lon>>, "osm")
    ELSE RegionInfo(ward.name, ward.lat, ward.lon, "ward")

\* resolve_region; osm is what fallback_geocode would answer
resolve_region(region, lat, lon, osm) ==
    LET label == IF region # <<>> /\ region[1] # "" THEN region[1] ELSE "Unknown region"
    IN  IF lat # <<>> /\ lon # <<>>
        THEN IF -90 <= lat[1] /\ lat[1] <= 90 /\ -180 <= lon[1] /\ lon[1] <= 180
             THEN RegionInfo(label, lat, lon, "direct")
             ELSE RegionInfo(label, <<>>, <<>>, "invalid")
        ELSE IF region # <<>> /\ region[1] # ""
        THEN LET query  == normalize_query(region[1])
                 fuzzyP == get_close_matches(query, [i \in 1..Len(PROVINCES) |-> normalize_query(PROVINCES[i])])
                 fuzzyW == get_close_matches(query, [i \in 1..Len(WARDS) |-> normalize_query(WARDS[i].name)])
             IN  IF FirstProvince(query) # 0
                 THEN RegionInfo(PROVINCES[FirstProvince(query)], <<>>, <<>>, "province")
                 ELSE IF FirstWard(query) # 0 THEN WardInfo(WARDS[FirstWard(query)], osm)
                 ELSE IF fuzzyP # <<>>
                 THEN RegionInfo(PROVINCES[FirstProvince(fuzzyP[1])], <<>>, <<>>, "province")
                 ELSE IF fuzzyW # <<>> THEN WardInfo(WARDS[FirstWard(fuzzyW[1])], osm)
                 ELSE IF osm # <<>>
                 THEN RegionInfo(region[1], <<osm[1].lat>>, <<osm[1].lon>>, "osm")
                 ELSE RegionInfo(region[1], <<>>, <<>>, "not_found")
        ELSE RegionInfo("Unknown region", <<>>, <<>>, "empty")

-----------------------------------------------------------------------------
(* services/chat.py: the /v1/chat handler *)
(* The JSONResponse objects are taken as built: rendering belongs to the    *)
(* HTTP layer, so the outer handler of lines 162-183 has nothing to catch.  *)

Response(status, message, hint, bulletin) ==
    [status_code |-> 200, status |-> status, message |-> message, hint |-> hint,
     bulletin |-> bulletin]

ResponseIdle == [status_code |-> 0, status |-> "idle", message |-> "", hint |-> "",
                 bulletin |-> BulletinIdle]

\* notify.notify_api: the message of the result is the detail it was given
notify_api(action, status, detail, hint) ==
    [action |-> action, status |-> status, message |-> detail, hint |-> hint]

\* variant of the guard of line 64 that looks at the latitude only
UnresolvedLatOnly(info) == info.lat = <<>>

\* region_info.get("lat") is None or region_info.get("lon") is None
Unresolved(info) == info.lat = <<>> \/ info.lon = <<>>

\* what the name generate_bulletin is bound to answers: the function itself
\* run against its collaborators, or a stand-in that raises, returns None or
\* returns an error object without a message
BulletinNone      == BulletinResult("none", "", "", <<>>, BenignCurrent, StormIdle, UnusualIdle)
BulletinNoMessage == BulletinResult("error", "", "", <<>>, BenignCurrent, StormIdle, UnusualIdle)

CalleeResult(callee, e) ==
    CASE callee = "run"        -> generate_bulletin(e)
      [] callee = "raise"      -> BulletinRaised
      [] callee = "none"       -> BulletinNone
      [] callee = "no_message" -> BulletinNoMessage

\* chat: the response, and what the generate_bulletin call answered
\* (BulletinIdle when it was not called)
chat(req, col, e) ==
    LET info == resolve_region(req.region, req.lat, req.lon, col.geocode)
        r    == CalleeResult(col.bulletin, e)
        error_msg == IF r.status = "none" THEN "khong_co_du_lieu_tu_nguon"
                     ELSE IF r.message = "" THEN "bulletin_loi_du_lieu_khong_xac_dinh"
                     ELSE r.message
    IN  IF col.resolve = "raise"
        THEN [response |-> Response("error", "khong_the_xu_ly_dia_danh",
                                    "thu_nhap_ten_khac_hoac_lat_lon", BulletinIdle),
              called |-> BulletinIdle]
        ELSE IF Unresolved(info)
        THEN LET n == notify_api("chat_request", "error", "khong_tim_thay_dia_danh_hoac_toa_do",
                                 "cung_cap_ten_hop_le_hoac_lat_lon")
             IN  [response |-> Response("error", n.message, n.hint, BulletinIdle),
                  called |-> BulletinIdle]
        ELSE IF r.status = "raised"
        THEN LET n == notify_api("chat_request", "error", "loi_he_thong_khi_sinh_ban_tin",
                                 "quan_ly_can_kiem_tra_ket_noi")
             IN  [response |-> Response("error", n.message, n.hint, BulletinIdle), called |-> r]
        ELSE IF r.status = "ok"
        THEN [response |-> Response("ok", "ban_tin_thoi_tiet_truc_tiep", "", r), called |-> r]
        ELSE LET n == notify_api("chat_request", "error", error_msg,
                                 "kiem_tra_ket_noi_api_hoac_logic")
             IN  [response |-> Response("error", n.message, n.hint, BulletinIdle), called |-> r]

-----------------------------------------------------------------------------
(* services/open_meteo/open_meteo.py: fetch_forecast *)

\* the default of config.MAX_RETRIES
MAX_RETRIES == 3

\* what one requests.get can end with
UpstreamOutcomes ==
    {"timeout", "connection_error", "request_error", "http_5xx", "http_4xx",
     "json_dict", "json_not_dict", "not_json"}

Transient == {"timeout", "connection_error", "http_5xx"}

RECURSIVE Pow2(_)
Pow2(n) == IF n = 0 THEN 1 ELSE 2 * Pow2(n - 1)

\* 1.5 * (2 ** attempt) seconds, in half seconds
Backoff(k) == 3 * Pow2(k)

\* variant of the guard of lines 36 and 48 that always retries
AlwaysRetry(k, retries) == TRUE

\* attempt < config.MAX_RETRIES - 1
RetriesRemain(k, retries) == k < retries - 1

\* one pass of the loop body up to its sleep, continue or return
Request ==
    /\ pc = "loop"
    /\ attempt < max_retries
    /\ \E outcome \in UpstreamOutcomes :
          /\ responses' = Append(responses, outcome)
          /\ IF outcome \in Transient /\ RetriesRemain(attempt, max_retries)
             THEN pc' = "sleeping" /\ data' = data
             ELSE /\ pc' = "done"
                  /\ data' = IF outcome = "json_dict" THEN "dict" ELSE "empty"
    /\ UNCHANGED <<attempt, slept, max_retries>>
    /\ UNCHANGED <<alertVars, bulletinVars, chatVars, restVars>>

\* time.sleep(1.5 * (2 ** attempt)); continue
Sleep ==
    /\ pc = "sleeping"
    /\ slept' = Append(slept, Backoff(attempt))
    /\ attempt' = attempt + 1
    /\ pc' = "loop"
    /\ UNCHANGED <<responses, data, max_retries>>
    /\ UNCHANGED <<alertVars, bulletinVars, chatVars, restVars>>

\* the loop is exhausted: return {} of line 64
LoopExit ==
    /\ pc = "loop"
    /\ attempt >= max_retries
    /\ pc' = "done"
    /\ data' = "empty"
    /\ UNCHANGED <<attempt, responses, slept, max_retries>>
    /\ UNCHANGED <<alertVars, bulletinVars, chatVars, restVars>>

-----------------------------------------------------------------------------
(* Idle values of the variables a specification does not use *)

EnvIdle      == [idle |-> TRUE]
RequestIdle  == [idle |-> TRUE]
CollabIdle   == [idle |-> TRUE]

AlertsUnused ==
    /\ current = BenignCurrent /\ hourly_df = <<>> /\ daily_df = <<>>
    /\ official_alerts = <<>> /\ storm_alerts = StormIdle /\ unusual_alerts = UnusualIdle
BulletinUnused == env = EnvIdle /\ bulletin_result = BulletinIdle
ChatUnused     == request = RequestIdle /\ response = ResponseIdle /\ collab = CollabIdle
FetchUnused    ==
    /\ attempt = 0 /\ responses = <<>> /\ slept = <<>> /\ data = "unset" /\ pc = "idle"
    /\ max_retries = MAX_RETRIES
CoreUnused     == AlertsUnused /\ BulletinUnused /\ ChatUnused /\ FetchUnused

ArgsIdle       == [idle |-> TRUE]
RegionInfoIdle == RegionInfo("", <<>>, <<>>, "idle")
HeatIdle       == [idle |-> TRUE]

LookupUnused ==
    /\ args = ArgsIdle /\ geocoder = "idle" /\ stage = "idle"
    /\ consulted = <<>> /\ region_info = RegionInfoIdle
TextUnused == raw_text = <<>> /\ passes = <<>>
WindUnused == wind_in = NoneCell /\ wind_metrics = <<>>
HeatUnused == heat_in = HeatIdle /\ heat_index = <<>>

InputIdle == [idle |-> TRUE]

WsUnused ==
    /\ ws_max_retries = 0 /\ ws_attempt = 0 /\ ws_outcomes = <<>>
    /\ ws_sleeps = <<>> /\ ws_result = <<>> /\ ws_pc = "idle"
ReadsUnused    == upstream = InputIdle /\ sections = <<>>
OverviewUnused == overview_in = InputIdle /\ overview_out = <<>>
RainUnused     == rain_in = InputIdle /\ rain_out = <<>>
TrendUnused    == trend_in = InputIdle /\ trend_out = <<>>
MoreUnused     ==
    WsUnused /\ ReadsUnused /\ OverviewUnused /\ RainUnused /\ TrendUnused
EarlierUnused  ==
    CoreUnused /\ LookupUnused /\ TextUnused /\ WindUnused /\ HeatUnused
RestUnused ==
    LookupUnused /\ TextUnused /\ WindUnused /\ HeatUnused /\ MoreUnused

-----------------------------------------------------------------------------
(* SpecAlerts: the two classifiers applied to one set of inputs *)

InitAlerts ==
    /\ \E inp \in AlertInputs :
          current = inp.current /\ hourly_df = inp.hourly /\ daily_df = inp.daily
    /\ official_alerts \in OfficialLists
    /\ storm_alerts = StormIdle
    /\ unusual_alerts = UnusualIdle
    /\ BulletinUnused /\ ChatUnused /\ FetchUnused /\ RestUnused

CheckStormAlert ==
    /\ storm_alerts' = check_storm_alert(current, daily_df, official_alerts)
    /\ UNCHANGED <<current, hourly_df, daily_df, official_alerts, unusual_alerts>>
    /\ UNCHANGED <<bulletinVars, chatVars, fetchVars, restVars>>

CheckUnusualAlert ==
    /\ unusual_alerts' = check_unusual_alert(current, hourly_df, daily_df, official_alerts)
    /\ UNCHANGED <<current, hourly_df, daily_df, official_alerts, storm_alerts>>
    /\ UNCHANGED <<bulletinVars, chatVars, fetchVars, restVars>>

NextAlerts == CheckStormAlert \/ CheckUnusualAlert

SpecAlerts == InitAlerts /\ [][NextAlerts]_vars

-----------------------------------------------------------------------------
(* Claims about the classifiers (SpecAlerts) *)

\* C1: with no official alerts, check_storm_alert returns the category fixed
\* by the escalation precedence, for every pressure band, wind speed and set
\* of daily rain totals: (1) a day >= 100 mm and wind >= 17 => storm formed;
\* (2) wind >= 25 => storm formed; (3) pressure signal and wind signal =>
\* storm formed; (4) pressure signal without wind signal => tropical
\* depression; (5) any remaining signal => storm risk; (6) no signal => no
\* storm indication.  The signals are a pressure of 1000 hPa or less, a wind
\* of storm force (17 m/s or more) and a day of 100 mm or more.
C1_StormPrecedence ==
    storm_alerts.kind = "result" =>
        LET w == IF current.wind_speed_ms.k = "num" THEN current.wind_speed_ms.v ELSE 0
            p == IF current.mslp_hpa.k # "none" THEN current.mslp_hpa ELSE current.mslp
            heavy == \E i \in 1..Len(daily_df) :
                        daily_df[i].rain_mm.k = "num" /\ daily_df[i].rain_mm.v >= STORM_RAIN_ALERT
            pressure_signal == p.k = "num" /\ p.v <= LOW_PRESSURE_FORMATION
            wind_signal == w >= STORM_WIND_ALERT
            expected ==
                IF heavy /\ w >= STORM_WIND_ALERT THEN "storm_formed"
                ELSE IF w >= STORM_WIND_EXTREME THEN "storm_formed"
                ELSE IF pressure_signal /\ wind_signal THEN "storm_formed"
                ELSE IF pressure_signal THEN "tropical_depression"
                ELSE IF wind_signal \/ heavy THEN "storm_risk"
                ELSE "no_storm"
        IN  storm_alerts.category = expected

\* C2: a wind speed in [10, 17) is not a wind signal for the escalation: with
\* a pressure signal (pressure <= 1000), wind in [10, 17) and no heavy-rain
\* day the category is tropical depression, not storm formed.
C2_StrongWindIsNoStormSignal ==
    (/\ storm_alerts.kind = "result"
     /\ PressureSignals(PressureOf(current)) # <<>>
     /\ current.wind_speed_ms.k = "num"
     /\ current.wind_speed_ms.v >= STRONG_WIND
     /\ current.wind_speed_ms.v < STORM_WIND_ALERT
     /\ ~\E i \in 1..Len(daily_df) : GE(daily_df[i].rain_mm, STORM_RAIN_ALERT))
    => storm_alerts.category = "tropical_depression"

\* C7: both classifiers are total on malformed records and rows: whatever
\* field is absent, None, NaN or a non-numeric entry, neither call raises,
\* and such a field contributes no statement.
C7_ClassifiersTotal ==
    /\ storm_alerts.kind # "raise"
    /\ unusual_alerts.kind # "raise"
    /\ \A i \in 1..Len(storm_alerts.signals) :
          storm_alerts.signals[i].row > 0 =>
              daily_df[storm_alerts.signals[i].row].rain_mm.k = "num"
    /\ \A i \in 1..Len(unusual_alerts.alerts) :
          LET a == unusual_alerts.alerts[i]
              f == CASE a.text = "nhiet_do" -> "temp_c"
                     [] a.text = "gio"      -> "wind_speed_ms"
                     [] a.text = "mua"      -> "rain_mm"
                     [] a.text = "ap_suat"  -> "mslp_hpa"
                     [] OTHER               -> ""
              r == IF a.label = "current" THEN current
                   ELSE IF a.label = "theo gio" THEN hourly_df[a.row]
                   ELSE daily_df[a.row]
          IN  f # "" => r[f].k = "num"

\* C8: with no official alerts, check_unusual_alert emits a statement for
\* each numeric extreme (temperature >= 40, wind >= 25, rain >= 100,
\* pressure <= 990) found in the current record, in an hourly row or in a
\* daily row, and answers "nothing unusual" only when there is no keyword
\* match and no numeric extreme at any of the three granularities.
C8_ExtremesFlaggedAtEveryGranularity ==
    unusual_alerts.kind \in {"none", "alerts"} =>
        LET IsExtreme(r, f) ==
                IF f = "mslp_hpa" THEN LE(r[f], PRESSURE_LOW) ELSE GE(r[f], Extreme(f).v)
            Word(f) ==
                CASE f = "temp_c" -> "nhiet_do" [] f = "wind_speed_ms" -> "gio"
                  [] f = "rain_mm" -> "mua" [] f = "mslp_hpa" -> "ap_suat"
            Emitted(f, label, row) ==
                \E i \in 1..Len(unusual_alerts.alerts) :
                    unusual_alerts.alerts[i] = Alert(Word(f), label, row)
            numeric ==
                \A f \in Fields :
                    /\ IsExtreme(current, f) => Emitted(f, "current", 0)
                    /\ \A i \in 1..Len(hourly_df) :
                          IsExtreme(hourly_df[i], f) => Emitted(f, "theo gio", i)
                    /\ \A i \in 1..Len(daily_df) :
                          IsExtreme(daily_df[i], f) => Emitted(f, "theo ngay", i)
            quiet ==
                /\ \A f \in Fields :
                      /\ ~IsExtreme(current, f)
                      /\ \A i \in 1..Len(hourly_df) : ~IsExtreme(hourly_df[i], f)
                      /\ \A i \in 1..Len(daily_df) : ~IsExtreme(daily_df[i], f)
                /\ current.weather_desc = {}
                /\ \A i \in 1..Len(hourly_df) : hourly_df[i].weather_desc = {}
                /\ \A i \in 1..Len(daily_df) : daily_df[i].weather_desc = {}
        IN  /\ numeric
            /\ unusual_alerts.kind = "none" => quiet

\* C9: a non-empty official-alert list is returned by both classifiers
\* verbatim and in the given order under the official header, with no signal
\* of their own evaluated: the result is the same for every input.
C9_OfficialAlertsVerbatim ==
    official_alerts # <<>> =>
        /\ storm_alerts \in
              {StormIdle,
               StormResult("official", "", "canh_bao_chinh_thuc_nchmf", official_alerts, <<>>)}
        /\ unusual_alerts \in {UnusualIdle, UnusualResult("official", official_alerts, <<>>)}

\* C9 witness: both classifiers answered with a two-entry official list on
\* inputs whose own evaluation raises
C9_OfficialOnMalformedInput ==
    /\ Len(official_alerts) = 2
    /\ storm_alerts.kind = "official" /\ storm_alerts.official = official_alerts
    /\ unusual_alerts.kind = "official" /\ unusual_alerts.official = official_alerts
    /\ check_storm_alert(current, daily_df, <<>>) = StormRaised
    /\ check_unusual_alert(current, hourly_df, daily_df, <<>>) = UnusualRaised

-----------------------------------------------------------------------------
(* SpecBulletin: generate_bulletin against every outcome of its collaborators *)

Read(kind, rows) == [kind |-> kind, rows |-> rows]
FailedReads == {Read("raise", <<>>), Read("none", <<>>), Read("empty", <<>>)}

CurrentReads ==
    FailedReads \cup
    {Read("data", <<c>>) :
        c \in {BenignCurrent,
               [BenignCurrent EXCEPT !.mslp_hpa = Num(STORM_PRESSURE_ALERT),
                                     !.wind_speed_ms = Num(STORM_WIND_ALERT + 1)],
               [BenignCurrent EXCEPT !.rain_mm = NoneCell]}}
HourlyReads ==
    FailedReads \cup
    {Read("data", DataFrame(<<r>>)) :
        r \in {BenignRow, [BenignRow EXCEPT !.temp_c = NoneCell],
               [BenignRow EXCEPT !.temp_c = Extreme("temp_c")]}}
DailyReads ==
    FailedReads \cup
    {Read("data", DataFrame(<<r>>)) :
        r \in {BenignRow, [BenignRow EXCEPT !.rain_mm = Num(STORM_RAIN_ALERT + 20)],
               [BenignRow EXCEPT !.rain_mm = StrCell]}}

\* get_precipitation_summary / get_precipitation_current: they raise, or the
\* summary carries a current amount
RainOutcomes ==
    {[kind |-> "raise", current |-> NoneCell]}
    \cup {[kind |-> "ok", current |-> c] : c \in {Num(0), Num(RAIN_EXTREME), NoneCell}}

Outcomes == {"ok", "raise"}

Envs ==
    [current_read : CurrentReads, hourly_read : HourlyReads, daily_read : DailyReads,
     rain : RainOutcomes, ensure_hourly : Outcomes, ensure_daily : Outcomes,
     header : Outcomes, current_block : Outcomes, overview : Outcomes,
     hourly_block : Outcomes, trend : Outcomes]

InitBulletin ==
    /\ env \in Envs
    /\ bulletin_result = BulletinIdle
    /\ AlertsUnused /\ ChatUnused /\ FetchUnused /\ RestUnused

GenerateBulletin ==
    /\ bulletin_result' = generate_bulletin(env)
    /\ UNCHANGED <<env, alertVars, chatVars, fetchVars, restVars>>

NextBulletin == GenerateBulletin

SpecBulletin == InitBulletin /\ [][NextBulletin]_vars

\* the sources of a call: none of the reads raised, and some section has rows
SomeSourceNonEmpty ==
    /\ "raise" \notin {env.current_read.kind, env.hourly_read.kind, env.daily_read.kind}
    /\ "data" \in {env.current_read.kind, env.hourly_read.kind, env.daily_read.kind}

-----------------------------------------------------------------------------
(* Claims about generate_bulletin (SpecBulletin) *)

\* C3: generate_bulletin never propagates an exception: whatever the three
\* reads, the rain service and the block generators return or raise, the
\* result has status ok or error, and an error carries a message and a hint.
C3_BulletinNeverRaises ==
    /\ bulletin_result.status \in {"idle", "ok", "error"}
    /\ bulletin_result.status = "error" =>
          bulletin_result.message # "" /\ bulletin_result.hint # ""

\* C3 witness: a block generator raised on non-empty sources and the call
\* ended with the error object of the outer handler
C3_BlockExceptionAnswered ==
    /\ bulletin_result = SystemError
    /\ env.hourly_read.kind = "data"
    /\ env.trend = "raise"
    /\ \A f \in {"ensure_hourly", "ensure_daily", "header", "current_block",
                 "overview", "hourly_block"} : env[f] = "ok"
    /\ "raise" \notin {env.current_read.kind, env.hourly_read.kind, env.daily_read.kind}

\* C4: with a non-empty source, an exception inside any single stage (rain
\* summary, current conditions, overview, 24h, trend, storm, unusual) is
\* caught at that stage and the result is still status ok; status error is
\* returned only when all three sources are empty.
C4_StageExceptionsCaughtLocally ==
    (/\ bulletin_result.status # "idle"
     /\ SomeSourceNonEmpty
     /\ env.ensure_hourly = "ok" /\ env.ensure_daily = "ok" /\ env.header = "ok")
    => bulletin_result.status = "ok"

-----------------------------------------------------------------------------
(* SpecChat: one /v1/chat request against every outcome of its collaborators *)

Regions ==
    {<<>>, <<"">>, <<"Ha Noi">>, <<"HA-NOI">>, <<"Da Nanh">>, <<"xa Lanh Ngoc Quang Nam">>,
     <<"xa Lanh Ngok Quang Nam">>, <<"xa Tra My Quang Nam">>, <<"xa Phuoc Hiep Quang Nam">>,
     <<"unknownplace">>}
Latitudes  == {<<>>, <<16>>, <<-90>>, <<91>>}
Longitudes == {<<>>, <<108>>, <<180>>, <<-181>>}

Requests == [region : Regions, lat : Latitudes, lon : Longitudes]

\* fallback_geocode: None (no hit, HTTP error, exception), or a position
GeocodeOutcomes == {<<>>, <<[lat |-> 21, lon |-> 105]>>}

Collabs ==
    [geocode : GeocodeOutcomes, resolve : Outcomes,
     bulletin : {"run", "raise", "none", "no_message"}]

\* the collaborators of generate_bulletin during a request: all sections
\* present, nothing at all, the hourly section missing, a block raising
AllFine ==
    [current_read |-> Read("data", <<BenignCurrent>>),
     hourly_read |-> Read("data", DataFrame(<<BenignRow>>)),
     daily_read |-> Read("data", DataFrame(<<BenignRow>>)),
     rain |-> [kind |-> "ok", current |-> Num(0)],
     ensure_hourly |-> "ok", ensure_daily |-> "ok", header |-> "ok",
     current_block |-> "ok", overview |-> "ok", hourly_block |-> "ok", trend |-> "ok"]
ChatEnvs ==
    {AllFine,
     [AllFine EXCEPT !.current_read = Read("empty", <<>>), !.hourly_read = Read("empty", <<>>),
                     !.daily_read = Read("empty", <<>>)],
     [AllFine EXCEPT !.hourly_read = Read("empty", <<>>)],
     [AllFine EXCEPT !.trend = "raise"]}

InitChat ==
    /\ request \in Requests
    /\ collab \in Collabs
    /\ env \in ChatEnvs
    /\ response = ResponseIdle
    /\ bulletin_result = BulletinIdle
    /\ AlertsUnused /\ FetchUnused /\ RestUnused

Chat ==
    /\ response' = chat(request, collab, env).response
    /\ bulletin_result' = chat(request, collab, env).called
    /\ UNCHANGED <<request, collab, env, alertVars, fetchVars, restVars>>

NextChat == Chat

SpecChat == InitChat /\ [][NextChat]_vars

-----------------------------------------------------------------------------
(* Claims about /v1/chat (SpecChat) *)

\* C6: every /v1/chat request ends with HTTP 200 and a status ok or error:
\* ok exactly when the resolution yields non-null lat and lon and
\* generate_bulletin returns status ok; error with the "place not found"
\* message when lat or lon is unresolved, generate_bulletin not being called;
\* error with the bulletin's own message when generate_bulletin returns
\* status error; error with the "system error" message when it raises.
C6_ChatAlwaysAnswers ==
    response # ResponseIdle =>
        LET info == resolve_region(request.region, request.lat, request.lon, collab.geocode)
            resolved == collab.resolve = "ok" /\ info.lat # <<>> /\ info.lon # <<>>
        IN  /\ response.status_code = 200
            /\ response.status \in {"ok", "error"}
            /\ (response.status = "ok") = (resolved /\ bulletin_result.status = "ok")
            /\ (collab.resolve = "ok" /\ ~resolved) =>
                  /\ response.status = "error"
                  /\ response.message = "khong_tim_thay_dia_danh_hoac_toa_do"
                  /\ bulletin_result = BulletinIdle
            /\ (resolved /\ bulletin_result.status = "error" /\ bulletin_result.message # "") =>
                  /\ response.status = "error"
                  /\ response.message = bulletin_result.message
            /\ (resolved /\ collab.bulletin = "raise") =>
                  /\ response.status = "error"
                  /\ response.message = "loi_he_thong_khi_sinh_ban_tin"

\* C6 witness: a name resolved through the gazetteer, generate_bulletin ran
\* and returned its no-data error, and the response carries that message
C6_BulletinErrorPassedOn ==
    /\ request.lat = <<>> /\ request.region = <<"xa Lanh Ngoc Quang Nam">>
    /\ collab.bulletin = "run" /\ collab.resolve = "ok"
    /\ bulletin_result = NoDataError
    /\ response = Response("error", NoDataError.message, "kiem_tra_ket_noi_api_hoac_logic", BulletinIdle)

-----------------------------------------------------------------------------
(* SpecFetch: one call of fetch_forecast against every upstream behaviour *)

InitFetch ==
    /\ max_retries \in 0..MaxRetries
    /\ attempt = 0 /\ responses = <<>> /\ slept = <<>> /\ data = "unset" /\ pc = "loop"
    /\ AlertsUnused /\ BulletinUnused /\ ChatUnused /\ RestUnused

NextFetch == Request \/ Sleep \/ LoopExit

SpecFetch == InitFetch /\ [][NextFetch]_vars

\* requests.get returns or raises within API_TIMEOUT and time.sleep returns:
\* a call that can take a step takes it
FairSpecFetch == SpecFetch /\ WF_vars(NextFetch)

-----------------------------------------------------------------------------
(* Claims about fetch_forecast (FairSpecFetch) *)

\* C10: fetch_forecast terminates for every sequence of upstream outcomes:
\* it issues at most MAX_RETRIES requests, stops at the first successful
\* JSON-object response, waits 1.5 * 2^k seconds only between attempt k and
\* attempt k+1 (never after the last attempt), and after exhausting its
\* attempts on transient errors returns {} without raising.
C10_FetchTerminatesWithinBounds ==
    /\ <>(pc = "done")
    /\ [](
          /\ Len(responses) <= max_retries
          /\ \A i \in 1..Len(responses) : responses[i] = "json_dict" => i = Len(responses)
          /\ (pc = "done" /\ responses # <<>> /\ responses[Len(responses)] = "json_dict") => data = "dict"
          /\ \A k \in 1..Len(slept) : slept[k] = 3 * Pow2(k - 1)
          /\ Len(slept) < max_retries \/ slept = <<>>
          /\ pc = "loop" => Len(slept) = Len(responses)
          /\ pc = "sleeping" => Len(slept) = Len(responses) - 1 /\ Len(responses) < max_retries
          /\ pc = "done" => Len(slept) = Len(responses) - 1 \/ responses = <<>>
          /\ data \in {"unset", "dict", "empty"}
          /\ (pc = "done" /\ Len(responses) = max_retries
              /\ \A i \in 1..Len(responses) : responses[i] \in Transient) => data = "empty")

\* C10 witness: three transient failures in a row, two waits of 1.5 s and
\* 3 s between them, and the empty result
C10_RetriesExhausted ==
    /\ pc = "done"
    /\ max_retries = MAX_RETRIES
    /\ responses = <<"timeout", "http_5xx", "connection_error">>
    /\ slept = <<3, 6>>
    /\ data = "empty"

\* C11: every class of upstream error - network failure (timeout, connection
\* error), HTTP 5xx, and a malformed or non-JSON body - is retried while
\* retries remain: a call that ends on one of them has used all MAX_RETRIES
\* attempts, and it ends with the empty result, not with an exception.
C11_UpstreamErrorsRetried ==
    (/\ pc = "done"
     /\ responses # <<>>
     /\ responses[Len(responses)] \in Transient \cup {"not_json", "json_not_dict"})
    => /\ Len(responses) = max_retries
       /\ data = "empty"

-----------------------------------------------------------------------------
(* SpecLookup: one call of resolve_region, stage by stage.                 *)
(* A coordinate argument is None (<<>>) or a cell: a number, float NaN, a   *)
(* string that float() parses (numstr), a string it does not parse (str).   *)

NumStr(x) == [k |-> "numstr", v |-> x]

\* float(x) raises ValueError on a string that is no number
FloatRaises(c) == c.k = "str"
\* float(x): the number itself, the number a string spells, or NaN
float(c) == IF c.k = "numstr" THEN Num(c.v) ELSE c

\* variant of the range test of line 54 with strict bounds
InRangeExclusive(lat, lon) ==
    /\ lat.k = "num" /\ -90 < lat.v /\ lat.v < 90
    /\ lon.k = "num" /\ -180 < lon.v /\ lon.v < 180

\* -90 <= lat <= 90 and -180 <= lon <= 180 (False for NaN)
InRange(lat, lon) ==
    /\ lat.k = "num" /\ -90 <= lat.v /\ lat.v <= 90
    /\ lon.k = "num" /\ -180 <= lon.v /\ lon.v <= 180

\* region or "Unknown region"
Label(region) == IF region # <<>> /\ region[1] # "" THEN region[1] ELSE "Unknown region"

\* variant of lines 51-58 without the return of line 58: coordinates that
\* fail the test fall through to the lookup by name
direct_coordinates_fallthrough(region, lat, lon) ==
    IF lat # <<>> /\ lon # <<>>
       /\ ~FloatRaises(lat[1]) /\ ~FloatRaises(lon[1])
       /\ InRange(float(lat[1]), float(lon[1]))
    THEN <<RegionInfo(Label(region), <<float(lat[1]).v>>, <<float(lon[1]).v>>, "direct")>>
    ELSE <<>>

\* lines 51-58: the dict returned when both coordinates are supplied, <<>>
\* when the call goes on to line 60
direct_coordinates(region, lat, lon) ==
    IF lat # <<>> /\ lon # <<>>
    THEN IF ~FloatRaises(lat[1]) /\ ~FloatRaises(lon[1])
            /\ InRange(float(lat[1]), float(lon[1]))
         THEN <<RegionInfo(Label(region), <<float(lat[1]).v>>, <<float(lon[1]).v>>, "direct")>>
         ELSE <<RegionInfo(Label(region), <<>>, <<>>, "invalid")>>
    ELSE <<>>

\* how the request of fallback_geocode can end
NominatimOutcomes ==
    {"timeout", "connection_error", "http_error", "not_json", "no_hit", "bad_hit", "hit"}

\* lines 31-41, the body of the try: the position of the first hit, None
\* when the status is not 200 or the list is empty, an exception otherwise
geocode_request(outcome) ==
    CASE outcome = "hit"                    -> [kind |-> "value", val |-> <<[lat |-> 21, lon |-> 105]>>]
      [] outcome \in {"http_error", "no_hit"} -> [kind |-> "value", val |-> <<>>]
      [] OTHER                              -> [kind |-> "raised", val |-> <<>>]

\* variant of fallback_geocode without its try/except
fallback_geocode_unguarded(outcome) == geocode_request(outcome)

\* fallback_geocode: every exception is logged and answered with None
fallback_geocode(outcome) ==
    LET r == geocode_request(outcome)
    IN  IF r.kind = "raised" THEN [kind |-> "value", val |-> <<>>] ELSE r

RegionRaised == RegionInfo("", <<>>, <<>>, "raised")

\* variant of the order of the blocks with the fuzzy province search (lines
\* 86-92) placed before the exact ward search (lines 68-84)
NextStageFuzzyFirst(s) ==
    CASE s = "exact_province" -> "fuzzy_province"
      [] s = "fuzzy_province" -> "exact_ward"
      [] s = "exact_ward"     -> "fuzzy_ward"
      [] s = "fuzzy_ward"     -> "geocoder"

\* the block that follows a block that found nothing
NextStage(s) ==
    CASE s = "exact_province" -> "exact_ward"
      [] s = "exact_ward"     -> "fuzzy_province"
      [] s = "fuzzy_province" -> "fuzzy_ward"
      [] s = "fuzzy_ward"     -> "geocoder"

\* query = normalize_query(region)
Query == normalize_query(args.region[1])

NormalizedProvinces == [i \in 1..Len(PROVINCES) |-> normalize_query(PROVINCES[i])]
NormalizedWards     == [i \in 1..Len(WARDS) |-> normalize_query(WARDS[i].name)]

\* lines 51-60 and 134: direct coordinates, else the name, else 'empty'
CheckCoordinates ==
    /\ stage = "start"
    /\ LET d == direct_coordinates(args.region, args.lat, args.lon)
       IN  IF d # <<>>
           THEN region_info' = d[1] /\ stage' = "returned"
           ELSE IF args.region # <<>> /\ args.region[1] # ""
           THEN region_info' = region_info /\ stage' = "exact_province"
           ELSE /\ region_info' = RegionInfo("Unknown region", <<>>, <<>>, "empty")
                /\ stage' = "returned"
    /\ UNCHANGED <<args, geocoder, consulted>>
    /\ UNCHANGED <<coreVars, textVars, windVars, heatVars, moreVars>>

\* lines 63-66 (s = "exact_province", name = query) and lines 87-92
\* (s = "fuzzy_province", name = the close match)
ProvinceStep(s, name) ==
    /\ stage = s
    /\ consulted' = Append(consulted, s)
    /\ IF name # <<>> /\ FirstProvince(name[1]) # 0
       THEN /\ region_info' = RegionInfo(PROVINCES[FirstProvince(name[1])], <<>>, <<>>, "province")
            /\ stage' = "returned"
       ELSE region_info' = region_info /\ stage' = NextStage(s)
    /\ UNCHANGED <<args, geocoder>>
    /\ UNCHANGED <<coreVars, textVars, windVars, heatVars, moreVars>>

\* lines 69-84 (s = "exact_ward") and lines 95-125 (s = "fuzzy_ward"): the
\* matching ward, completed by fallback_geocode when a coordinate is missing;
\* an exception inside the try is logged and the loop goes on
WardStep(s, name) ==
    /\ stage = s
    /\ IF name # <<>> /\ FirstWard(name[1]) # 0
       THEN LET ward  == WARDS[FirstWard(name[1])]
                needs == ward.lat = <<>> \/ ward.lon = <<>>
                osm   == fallback_geocode(geocoder)
            IN  /\ consulted' = consulted \o (IF needs THEN <<s, "geocoder">> ELSE <<s>>)
                /\ IF needs /\ osm.kind = "raised"
                   THEN region_info' = region_info /\ stage' = NextStage(s)
                   ELSE /\ region_info' = WardInfo(ward, IF needs THEN osm.val ELSE <<>>)
                        /\ stage' = "returned"
       ELSE /\ consulted' = Append(consulted, s)
            /\ region_info' = region_info /\ stage' = NextStage(s)
    /\ UNCHANGED <<args, geocoder>>
    /\ UNCHANGED <<coreVars, textVars, windVars, heatVars, moreVars>>

ExactProvince == ProvinceStep("exact_province", <<Query>>)
ExactWard     == WardStep("exact_ward", <<Query>>)
FuzzyProvince == ProvinceStep("fuzzy_province", get_close_matches(Query, NormalizedProvinces))
FuzzyWard     == WardStep("fuzzy_ward", get_close_matches(Query, NormalizedWards))

\* lines 128-132: the geocoder on the name as given, else 'not_found'
Geocode ==
    /\ stage = "geocoder"
    /\ consulted' = Append(consulted, "geocoder")
    /\ LET osm == fallback_geocode(geocoder)
       IN  region_info' =
               IF osm.kind = "raised" THEN RegionRaised
               ELSE IF osm.val # <<>>
               THEN RegionInfo(args.region[1], <<osm.val[1].lat>>, <<osm.val[1].lon>>, "osm")
               ELSE RegionInfo(args.region[1], <<>>, <<>>, "not_found")
    /\ stage' = "returned"
    /\ UNCHANGED <<args, geocoder>>
    /\ UNCHANGED <<coreVars, textVars, windVars, heatVars, moreVars>>

LatArgs == {<<>>, <<Num(16)>>, <<Num(-90)>>, <<Num(90)>>, <<Num(91)>>, <<Num(-91)>>,
            <<NaNCell>>, <<StrCell>>, <<NumStr(16)>>, <<NumStr(91)>>}
LonArgs == {<<>>, <<Num(108)>>, <<Num(-180)>>, <<Num(180)>>, <<Num(181)>>, <<Num(-181)>>,
            <<NaNCell>>, <<StrCell>>, <<NumStr(108)>>}

InitLookup ==
    /\ args \in [region : Regions, lat : LatArgs, lon : LonArgs]
    /\ geocoder \in NominatimOutcomes
    /\ stage = "start" /\ consulted = <<>> /\ region_info = RegionInfoIdle
    /\ CoreUnused /\ TextUnused /\ WindUnused /\ HeatUnused /\ MoreUnused

NextLookup ==
    \/ CheckCoordinates
    \/ ExactProvince
    \/ ExactWard
    \/ FuzzyProvince
    \/ FuzzyWard
    \/ Geocode

SpecLookup == InitLookup /\ [][NextLookup]_vars

\* the call as a whole agrees with resolve_region as the /v1/chat handler
\* uses it, on the arguments that handler can pass
LookupAgreesWithResolveRegion ==
    (/\ stage = "returned"
     /\ args.lat # <<>> => args.lat[1].k = "num"
     /\ args.lon # <<>> => args.lon[1].k = "num")
    => region_info =
         resolve_region(args.region,
                        IF args.lat = <<>> THEN <<>> ELSE <<args.lat[1].v>>,
                        IF args.lon = <<>> THEN <<>> ELSE <<args.lon[1].v>>,
                        fallback_geocode(geocoder).val)

-----------------------------------------------------------------------------
(* Claims about resolve_region (SpecLookup) *)

\* C12: when lat in [-90, 90] and lon in [-180, 180] are supplied together,
\* whatever the name (resolvable, unknown, empty or absent), the call returns
\* source 'direct' with exactly the supplied lat and lon, the name as the
\* label ('Unknown region' when there is no name to pass), and consults
\* neither the gazetteer nor the geocoder.
C12_DirectCoordinatesPassThrough ==
    (/\ stage = "returned"
     /\ args.lat # <<>> /\ args.lon # <<>>
     /\ args.lat[1].k = "num" /\ -90 <= args.lat[1].v /\ args.lat[1].v <= 90
     /\ args.lon[1].k = "num" /\ -180 <= args.lon[1].v /\ args.lon[1].v <= 180)
    => /\ region_info.source = "direct"
       /\ region_info.lat = <<args.lat[1].v>>
       /\ region_info.lon = <<args.lon[1].v>>
       /\ region_info.name = IF args.region \in {<<>>, <<"">>} THEN "Unknown region"
                             ELSE args.region[1]
       /\ consulted = <<>>

\* C12 witness: a resolvable name with the extreme valid coordinates, answered
\* 'direct' under the name as given
C12_BoundaryCoordinatesDirect ==
    /\ stage = "returned"
    /\ args.region = <<"HA-NOI">> /\ args.lat = <<Num(90)>> /\ args.lon = <<Num(-180)>>
    /\ region_info = RegionInfo("HA-NOI", <<90>>, <<-180>>, "direct")

\* C13: when both coordinates are supplied and either is out of range or not
\* a number, the call returns the failure marker (source 'invalid') with
\* null lat and lon: no clamping, no lookup by name, no geocoding, even for
\* a resolvable name.
C13_InvalidCoordinatesAreFailure ==
    LET bad(c, limit) ==
            \/ c.k \in {"str", "nan"}
            \/ c.k \in {"num", "numstr"} /\ (c.v < -limit \/ c.v > limit)
    IN  (/\ stage = "returned"
         /\ args.lat # <<>> /\ args.lon # <<>>
         /\ bad(args.lat[1], 90) \/ bad(args.lon[1], 180))
        => /\ region_info.source = "invalid"
           /\ region_info.lat = <<>> /\ region_info.lon = <<>>
           /\ consulted = <<>>

\* C13 witness: latitude 91 with a name the gazetteer knows
C13_OutOfRangeWithKnownName ==
    /\ stage = "returned"
    /\ args.region = <<"Ha Noi">> /\ args.lat = <<Num(91)>> /\ args.lon = <<Num(108)>>
    /\ region_info = RegionInfo("Ha Noi", <<>>, <<>>, "invalid")

\* C14: in a lookup by name the stages are evaluated in the order exact
\* province, exact ward, fuzzy province, fuzzy ward, geocoder; the first one
\* that finds the name answers and none after it is evaluated (a ward entry
\* without coordinates has them completed by the geocoder); so a name with
\* an exact match is answered from that entry and no fuzzy stage is
\* evaluated for it.
C14_FirstSuccessfulStageWins ==
    (stage = "returned" /\ ~(args.lat # <<>> /\ args.lon # <<>>) /\ args.region \notin {<<>>, <<"">>})
    => LET p      == FirstProvince(Query)
           w      == FirstWard(Query)
           fp     == get_close_matches(Query, NormalizedProvinces)
           fw     == get_close_matches(Query, NormalizedWards)
           byWard(i, before) ==
               /\ region_info.name = WARDS[i].name
               /\ region_info.source \in {"ward", "osm"}
               /\ \/ consulted = before
                  \/ /\ consulted = Append(before, "geocoder")
                     /\ WARDS[i].lat = <<>> \/ WARDS[i].lon = <<>>
       IN  CASE p # 0      -> /\ consulted = <<"exact_province">>
                              /\ region_info = RegionInfo(PROVINCES[p], <<>>, <<>>, "province")
             [] w # 0      -> byWard(w, <<"exact_province", "exact_ward">>)
             [] fp # <<>>  -> /\ consulted = <<"exact_province", "exact_ward", "fuzzy_province">>
                              /\ region_info.source = "province"
                              /\ normalize_query(region_info.name) = fp[1]
             [] fw # <<>>  -> byWard(FirstWard(fw[1]),
                                     <<"exact_province", "exact_ward", "fuzzy_province", "fuzzy_ward">>)
             [] OTHER      -> /\ consulted = <<"exact_province", "exact_ward", "fuzzy_province",
                                               "fuzzy_ward", "geocoder">>
                              /\ region_info.source \in {"osm", "not_found"}

\* C14 witness: the full name of a ward without coordinates, answered by the
\* exact ward stage and completed by the geocoder
C14_ExactWardCompleted ==
    /\ stage = "returned"
    /\ args.region = <<"xa Tra My Quang Nam">> /\ args.lat = <<>>
    /\ consulted = <<"exact_province", "exact_ward", "geocoder">>
    /\ region_info = RegionInfo("xa Tra My Quang Nam", <<21>>, <<105>>, "osm")

\* C15: without a pair of coordinates the call never raises; with no name it
\* returns source 'empty', the placeholder name and null coordinates; with a
\* name that no gazetteer stage matches and a geocoder that fails, errors,
\* times out or finds nothing it returns source 'not_found', the given name
\* and null coordinates.
C15_UnresolvedIsAnsweredNotRaised ==
    (stage = "returned" /\ ~(args.lat # <<>> /\ args.lon # <<>>))
    => /\ region_info.source # "raised"
       /\ args.region \in {<<>>, <<"">>}
            => region_info = RegionInfo("Unknown region", <<>>, <<>>, "empty")
       /\ (/\ args.region \notin {<<>>, <<"">>}
           /\ FirstProvince(Query) = 0 /\ FirstWard(Query) = 0
           /\ get_close_matches(Query, NormalizedProvinces) = <<>>
           /\ get_close_matches(Query, NormalizedWards) = <<>>
           /\ geocoder # "hit")
            => region_info = RegionInfo(args.region[1], <<>>, <<>>, "not_found")

\* C15 witness: an unknown name while the geocoder times out
C15_GeocoderTimeoutNotFound ==
    /\ stage = "returned"
    /\ args.region = <<"unknownplace">> /\ args.lat = <<>> /\ args.lon = <<>>
    /\ geocoder = "timeout"
    /\ region_info = RegionInfo("unknownplace", <<>>, <<>>, "not_found")

-----------------------------------------------------------------------------
(* services/app_utils.py: normalize_query, character by character.         *)
(* A string is a sequence of characters; a character is named by a string: *)
(*   "a" "b" "e"  lower-case ASCII letters     "B" "E"  upper-case letters *)
(*   "1"          a digit                      "-"      punctuation        *)
(*   " " "tab"    whitespace                                               *)
(*   "a_acute" "E_GRAVE"  precomposed letters with a diacritic             *)
(*   "acute" "grave"      combining marks (category Mn)                    *)
(*   "d_stroke" "D_STROKE"  letters without a decomposition                *)

InputChars ==
    {"a", "B", "1", "-", " ", "tab", "a_acute", "E_GRAVE", "acute", "d_stroke", "D_STROKE"}

RECURSIVE FlatMap(_, _)
FlatMap(f, t) == IF t = <<>> THEN <<>> ELSE f[Head(t)] \o FlatMap(f, Tail(t))

\* unicodedata.normalize("NFD", text): canonical decomposition
Decomposition ==
    [c \in InputChars \cup {"b", "e", "E", "grave"} |->
        CASE c = "a_acute" -> <<"a", "acute">>
          [] c = "E_GRAVE" -> <<"E", "grave">>
          [] OTHER         -> <<c>>]
nfd(t) == FlatMap(Decomposition, t)

\* "".join([c for c in text if unicodedata.category(c) != "Mn"])
IsMark(c) == c \in {"acute", "grave"}
strip_marks(t) == SelectSeq(t, LAMBDA c : ~IsMark(c))

\* text.lower()
lower(t) ==
    [i \in 1..Len(t) |->
        CASE t[i] = "B"        -> "b"
          [] t[i] = "E"        -> "e"
          [] t[i] = "D_STROKE" -> "d_stroke"
          [] OTHER             -> t[i]]

\* re.sub(r"[^a-z0-9\s]", " ", text)
IsSpace(c) == c \in {" ", "tab"}
Kept(c) == c \in {"a", "b", "e", "1"} \/ IsSpace(c)
sub_other_chars(t) == [i \in 1..Len(t) |-> IF Kept(t[i]) THEN t[i] ELSE " "]

\* variant of the last line: text.replace("  ", " "), which halves runs of
\* blanks once and keeps leading and trailing ones
RECURSIVE replace_double_blank(_)
replace_double_blank(t) ==
    IF Len(t) < 2 THEN t
    ELSE IF t[1] = " " /\ t[2] = " " THEN <<" ">> \o replace_double_blank(SubSeq(t, 3, Len(t)))
    ELSE <<t[1]>> \o replace_double_blank(Tail(t))

\* the words of text.split(), joined by one blank each
RECURSIVE JoinWords(_, _, _)
JoinWords(t, out, gap) ==
    IF t = <<>> THEN out
    ELSE IF IsSpace(Head(t)) THEN JoinWords(Tail(t), out, out # <<>>)
    ELSE JoinWords(Tail(t), out \o (IF gap THEN <<" ">> ELSE <<>>) \o <<Head(t)>>, FALSE)

\* " ".join(text.split()).strip()
split_join(t) == JoinWords(t, <<>>, FALSE)

\* normalize_query on a string of characters
normalize_query_chars(t) ==
    IF t = <<>> THEN <<>>
    ELSE split_join(sub_other_chars(lower(strip_marks(nfd(t)))))

-----------------------------------------------------------------------------
(* SpecText: normalize_query applied to a string, then to its own result *)

InitText ==
    /\ raw_text \in SeqsUpTo(InputChars, MaxTextLen)
    /\ passes = <<>>
    /\ CoreUnused /\ LookupUnused /\ WindUnused /\ HeatUnused /\ MoreUnused

\* one call of normalize_query, on the string or on the last result
NormalizeQuery ==
    /\ Len(passes) < MaxPasses
    /\ passes' = Append(passes, normalize_query_chars(IF passes = <<>> THEN raw_text
                                                      ELSE passes[Len(passes)]))
    /\ UNCHANGED raw_text
    /\ UNCHANGED <<coreVars, lookupVars, windVars, heatVars, moreVars>>

NextText == NormalizeQuery

SpecText == InitText /\ [][NextText]_vars

\* C16: normalize_query is idempotent: applied to its own result, for any
\* mix of upper and lower case letters, diacritics, digits, punctuation and
\* whitespace, it returns that result unchanged.
C16_NormalizeIdempotent ==
    \A i \in 1..Len(passes) : i > 1 => passes[i] = passes[i - 1]

\* C16 witness: an upper-case letter with a diacritic, punctuation and a
\* letter without decomposition normalised twice; the first pass changed
\* the string, the second did not
C16_DiacriticsNormalizedTwice ==
    /\ raw_text = <<"E_GRAVE", "-", "D_STROKE">>
    /\ passes = <<(<<"e">>), (<<"e">>)>>

-----------------------------------------------------------------------------
(* services/wind.py: the Beaufort scale.  Speeds are in hundredths of m/s. *)

thresholds == <<30, 150, 330, 550, 790, 1070, 1380, 1710, 2070, 2440, 2840, 3260>>

\* variant of the loop of lines 30-32 that tests speed_ms < th
wind_to_beaufort_strict(speed_ms) ==
    LET hits == {i \in 1..Len(thresholds) : speed_ms.k = "num" /\ speed_ms.v < thresholds[i]}
    IN  IF hits = {} THEN 12 ELSE (CHOOSE i \in hits : \A j \in hits : i <= j) - 1

\* _wind_to_beaufort: the 0-based index of the first threshold with
\* speed_ms <= th, 12 when there is none (every comparison with NaN is False)
wind_to_beaufort(speed_ms) ==
    LET hits == {i \in 1..Len(thresholds) : LE(speed_ms, thresholds[i])}
    IN  IF hits = {} THEN 12 ELSE (CHOOSE i \in hits : \A j \in hits : i <= j) - 1

\* compute_wind_metrics: the speed as safe_float gives it and its scale
compute_wind_metrics(wind_speed_ms) ==
    LET wind_speed == safe_float(wind_speed_ms, Num(0))
    IN  [wind_speed_ms |-> wind_speed, beaufort_scale |-> wind_to_beaufort(wind_speed)]

-----------------------------------------------------------------------------
(* SpecWind: one call of compute_wind_metrics *)

WindInputs == {Num(v) : v \in -1..MaxWindSpeed} \cup {NoneCell, NaNCell, StrCell}

InitWind ==
    /\ wind_in \in WindInputs
    /\ wind_metrics = <<>>
    /\ CoreUnused /\ LookupUnused /\ TextUnused /\ HeatUnused /\ MoreUnused

ComputeWindMetrics ==
    /\ wind_metrics = <<>>
    /\ wind_metrics' = <<compute_wind_metrics(wind_in)>>
    /\ UNCHANGED wind_in
    /\ UNCHANGED <<coreVars, lookupVars, textVars, heatVars, moreVars>>

NextWind == ComputeWindMetrics

SpecWind == InitWind /\ [][NextWind]_vars

\* C17: every non-negative wind speed maps to one scale in 0..12: the number
\* of the thresholds 0.3, 1.5, 3.3, 5.5, 7.9, 10.7, 13.8, 17.1, 20.7, 24.4,
\* 28.4, 32.6 that lie strictly below it.  So a speed equal to threshold i
\* maps to scale i, a speed above 32.6 maps to 12, and a larger speed never
\* maps to a smaller scale.
C17_BeaufortTotalMonotonic ==
    (wind_metrics # <<>> /\ wind_in.k = "num" /\ wind_in.v >= 0)
    => LET v     == wind_in.v
           scale == wind_metrics[1].beaufort_scale
           th    == <<30, 150, 330, 550, 790, 1070, 1380, 1710, 2070, 2440, 2840, 3260>>
       IN  /\ scale \in 0..12
           /\ scale = Cardinality({i \in 1..12 : th[i] < v})
           /\ \A i \in 1..12 : v = th[i] => scale = i - 1
           /\ v > 3260 => scale = 12
           /\ v > 0 => wind_to_beaufort(Num(v - 1)) <= scale

\* C17 witness: the speed 32.6 m/s, equal to the last threshold, on scale 11
C17_LastThresholdIsScale11 ==
    /\ wind_in = Num(3260)
    /\ wind_metrics # <<>> /\ wind_metrics[1].beaufort_scale = 11

\* C18 as stated: a wind speed of 17.1 m/s maps to Beaufort scale 8.
C18_Wind171IsScale8 ==
    (wind_metrics # <<>> /\ wind_in = Num(1710)) => wind_metrics[1].beaufort_scale = 8

\* C18 amended: a wind speed of 17.1 m/s maps to Beaufort scale 7, the scale
\* whose threshold it equals.
C18_Wind171IsScale7 ==
    (wind_metrics # <<>> /\ wind_in = Num(1710)) => wind_metrics[1].beaufort_scale = 7

\* C18 witness: compute_wind_metrics called with 17.1 m/s has answered
C18_Wind171Computed ==
    /\ wind_in = Num(1710)
    /\ wind_metrics = <<[wind_speed_ms |-> Num(1710), beaufort_scale |-> 7]>>

-----------------------------------------------------------------------------
(* services/meteorology.py: compute_heat_index.  Temperature, humidity and *)
(* wind are in tenths of their unit, the index in thousandths of a degree. *)

RaisedCell == [k |-> "raised", v |-> 0]

\* isinstance(x, (int, float)) and pd.notnull(x)
IsValue(c) == IsNumber(c) /\ c.k # "nan"

\* (wind_ms or 0): None and 0.0 are falsy, NaN and a non-empty string are not
wind_or_zero(wind_ms) ==
    IF wind_ms.k \in {"none", "absent"} \/ (wind_ms.k = "num" /\ wind_ms.v = 0)
    THEN Num(0) ELSE wind_ms

\* variant of line 25 without the wind term
compute_heat_index_no_wind(temp_c, humidity_pct, wind_ms) ==
    IF IsValue(temp_c) /\ IsValue(humidity_pct) /\ GE(temp_c, 270) /\ GE(humidity_pct, 400)
    THEN Num(100 * temp_c.v + 33 * humidity_pct.v - 4000)
    ELSE NoneCell

\* compute_heat_index: temp_c + 0.33*humidity_pct - 0.7*(wind_ms or 0) - 4.0
\* inside the guard of lines 22-24, None outside; arithmetic with NaN gives
\* NaN, a float times a string raises TypeError
compute_heat_index(temp_c, humidity_pct, wind_ms) ==
    IF IsValue(temp_c) /\ IsValue(humidity_pct) /\ GE(temp_c, 270) /\ GE(humidity_pct, 400)
    THEN LET w == wind_or_zero(wind_ms)
         IN  CASE w.k = "str" -> RaisedCell
               [] w.k = "nan" -> NaNCell
               [] OTHER       -> Num(100 * temp_c.v + 33 * humidity_pct.v - 70 * w.v - 4000)
    ELSE NoneCell

\* generate_hourly_forecast, lines 73-92: the row's wind goes through
\* safe_float(..., 0.0) on its way to compute_all_metrics
hourly_heat_index(row) ==
    compute_heat_index(row.temp_c, row.humidity_pct, safe_float(row.wind_ms, Num(0)))

-----------------------------------------------------------------------------
(* SpecHeat: one computation of the heat index, by a direct call or for a  *)
(* row of the hourly table                                                  *)

Temperatures == {Num(260), Num(269), Num(270), Num(271), Num(350), NoneCell, NaNCell, StrCell}
Humidities   == {Num(0), Num(399), Num(400), Num(500), Num(1000), NoneCell, NaNCell, StrCell}
Winds        == {Num(0), Num(20), Num(155), NoneCell, NaNCell, StrCell, AbsentCell}

HeatInputs ==
    [temp_c : Temperatures, humidity_pct : Humidities, wind_ms : Winds, via : {"call", "hourly"}]

InitHeat ==
    /\ heat_in \in HeatInputs
    /\ heat_index = <<>>
    /\ CoreUnused /\ LookupUnused /\ TextUnused /\ WindUnused /\ MoreUnused

ComputeHeatIndex ==
    /\ heat_index = <<>>
    /\ heat_index' =
          IF heat_in.via = "hourly" THEN <<hourly_heat_index(heat_in)>>
          ELSE <<compute_heat_index(heat_in.temp_c, heat_in.humidity_pct, heat_in.wind_ms)>>
    /\ UNCHANGED heat_in
    /\ UNCHANGED <<coreVars, lookupVars, textVars, windVars, moreVars>>

NextHeat == ComputeHeatIndex

SpecHeat == InitHeat /\ [][NextHeat]_vars

\* C19: the heat index is 'no value' when the temperature is below 27, the
\* humidity below 40 % or either is missing; for temperature >= 27 and
\* humidity >= 40 it is the number T + 0.33*H - 0.7*W - 4.0 with W = 0 when
\* the wind is absent (None, or the NaN marker of the tables): never a
\* non-numeric result in the valid regime.
C19_HeatIndexRegimes ==
    LET T == heat_in.temp_c
        H == heat_in.humidity_pct
        W == heat_in.wind_ms
        known(c) == c.k \in {"num", "nan", "none", "absent"}
        missing(c) == c.k \in {"nan", "none"}
    IN  (heat_index # <<>> /\ known(T) /\ known(H) /\ known(W))
        => /\ (missing(T) \/ missing(H) \/ T.v < 270 \/ H.v < 400) => heat_index[1] = NoneCell
           /\ (T.k = "num" /\ H.k = "num" /\ T.v >= 270 /\ H.v >= 400)
                => heat_index[1] =
                      Num(100 * T.v + 33 * H.v - 70 * (IF W.k = "num" THEN W.v ELSE 0) - 4000)

\* C20 as stated: for temperature 35, wind 2 m/s and humidity 50 the heat
\* index is 45.1.
C20_HeatIndexIs451 ==
    (/\ heat_index # <<>>
     /\ heat_in.temp_c = Num(350) /\ heat_in.humidity_pct = Num(500) /\ heat_in.wind_ms = Num(20))
    => heat_index[1] = Num(45100)

\* C20 amended: for temperature 35, wind 2 m/s and humidity 50 the heat
\* index is 46.1, the value of 35 + 0.33*50 - 0.7*2 - 4.0.
C20_HeatIndexIs461 ==
    (/\ heat_index # <<>>
     /\ heat_in.temp_c = Num(350) /\ heat_in.humidity_pct = Num(500) /\ heat_in.wind_ms = Num(20))
    => heat_index[1] = Num(46100)

\* C20 witness: the scenario computed by a direct call
C20_ScenarioComputed ==
    /\ heat_in = [temp_c |-> Num(350), humidity_pct |-> Num(500), wind_ms |-> Num(20), via |-> "call"]
    /\ heat_index = <<Num(46100)>>

-----------------------------------------------------------------------------
(* resolve_region and the geocoder (SpecLookup, continued) *)

\* C28: for a name-only request, resolve_region returns null coordinates
\* only after the external geocoder has been tried and has failed; a name
\* recognised by a gazetteer stage whose entry carries no coordinates is
\* passed to the geocoder, so a recognised name never reaches the 'not found'
\* answer of /v1/chat (Unresolved) while the geocoder can answer.
C28_NullOnlyAfterGeocoderFailed ==
    (/\ stage = "returned"
     /\ args.lat = <<>> /\ args.lon = <<>>
     /\ Unresolved(region_info))
    => (/\ \E i \in 1..Len(consulted) : consulted[i] = "geocoder"
        /\ geocoder # "hit")

-----------------------------------------------------------------------------
(* weather_services.py: WeatherService.fetch_forecast (SpecWS) *)

\* how one requests.get of the loop can end: a parsed JSON body; a body
\* that is not JSON (resp.json() raises ValueError); a Timeout (ReadTimeout
\* or ConnectTimeout); any other RequestException (HTTPError raised by
\* raise_for_status, ConnectionError)
WsOutcomes ==
    {"ok", "not_json", "read_timeout", "connect_timeout", "http_error", "connection_error"}
IsTimeout(o) == o \in {"read_timeout", "connect_timeout"}

\* the default of the backoff_factor parameter
BACKOFF_FACTOR == 2

RECURSIVE Power(_, _)
Power(b, n) == IF n = 0 THEN 1 ELSE b * Power(b, n - 1)

\* line 100: sleep_time = backoff_factor ** (attempt - 1)
sleep_time(a) == Power(BACKOFF_FACTOR, a - 1)

\* line 99: a timed-out attempt is followed by another one
MoreAttempts(a, m) == a < m

\* lines 72-113, one pass of the loop body up to its return or its sleep
WsRequest ==
    /\ ws_pc = "loop" /\ ws_attempt <= ws_max_retries
    /\ \E o \in WsOutcomes :
         /\ ws_outcomes' = Append(ws_outcomes, o)
         /\ IF o = "ok"
            THEN ws_result' = <<"ok">> /\ ws_pc' = "done"
            ELSE IF IsTimeout(o) /\ MoreAttempts(ws_attempt, ws_max_retries)
            THEN ws_result' = ws_result /\ ws_pc' = "sleep"
            ELSE ws_result' = <<"error">> /\ ws_pc' = "done"
    /\ UNCHANGED <<ws_max_retries, ws_attempt, ws_sleeps>>
    /\ UNCHANGED <<earlierVars, readVars, overviewVars, rainVars, trendVars>>

\* lines 100-101: the sleep, then the next value of the loop variable
WsSleep ==
    /\ ws_pc = "sleep"
    /\ ws_sleeps' = Append(ws_sleeps, sleep_time(ws_attempt))
    /\ ws_attempt' = ws_attempt + 1
    /\ ws_pc' = "loop"
    /\ UNCHANGED <<ws_max_retries, ws_outcomes, ws_result>>
    /\ UNCHANGED <<earlierVars, readVars, overviewVars, rainVars, trendVars>>

\* range(1, max_retries + 1) is exhausted: no statement follows the loop
\* (the file ends at line 113), so the call returns None
WsLoopExit ==
    /\ ws_pc = "loop" /\ ws_attempt > ws_max_retries
    /\ ws_result' = <<"None">>
    /\ ws_pc' = "done"
    /\ UNCHANGED <<ws_max_retries, ws_attempt, ws_outcomes, ws_sleeps>>
    /\ UNCHANGED <<earlierVars, readVars, overviewVars, rainVars, trendVars>>

InitWS ==
    /\ ws_max_retries \in 0..MaxWsRetries
    /\ ws_attempt = 1 /\ ws_outcomes = <<>> /\ ws_sleeps = <<>>
    /\ ws_result = <<>> /\ ws_pc = "loop"
    /\ EarlierUnused
    /\ ReadsUnused /\ OverviewUnused /\ RainUnused /\ TrendUnused

NextWS == WsRequest \/ WsSleep \/ WsLoopExit

SpecWS == InitWS /\ [][NextWS]_vars

\* C30: WeatherService.fetch_forecast returns a dict whose status is 'ok' or
\* 'error' for every max_retries >= 0 and every sequence of upstream
\* outcomes: it makes at most max_retries requests, sleeps
\* backoff_factor^(attempt-1) seconds only between a timed-out attempt and
\* the next one, reports 'error' after the last timeout, and never returns
\* without a status.
C30_AlwaysStatusOkOrError ==
    /\ Len(ws_outcomes) <= ws_max_retries
    /\ Len(ws_sleeps) <= Len(ws_outcomes)
    /\ \A i \in 1..Len(ws_sleeps) :
         /\ ws_sleeps[i] = Power(BACKOFF_FACTOR, i - 1)
         /\ IsTimeout(ws_outcomes[i])
         /\ i < ws_max_retries
    /\ ws_pc = "done" =>
         /\ ws_result \in {<<"ok">>, <<"error">>}
         /\ Len(ws_sleeps) = Len(ws_outcomes) - 1
         /\ (ws_outcomes # <<>> /\ IsTimeout(ws_outcomes[Len(ws_outcomes)]))
               => ws_result = <<"error">>

-----------------------------------------------------------------------------
(* bulletin.py lines 42-57: the three section reads (SpecReads) *)

\* The provider serves payload number upstream.version while upstream.up;
\* while it is down fetch_forecast ends its retries with {}.
SECTIONS == <<"current", "hourly", "daily">>

\* open_meteo.read_cache(lat, lon, section): its own fetch_forecast call,
\* then the parser of the section; an empty table when the fetch gave {}
read_cache(section, provider) ==
    [section |-> section,
     payload |-> IF provider.up THEN <<provider.version>> ELSE <<>>]

\* lines 51-57: 'error' only when all three tables are empty
ReadsStatus(tables) ==
    IF \A i \in 1..Len(tables) : tables[i].payload = <<>> THEN "error" ELSE "ok"

ReadSection(n) ==
    /\ Len(sections) = n - 1
    /\ sections' = Append(sections, read_cache(SECTIONS[n], upstream))
    /\ UNCHANGED upstream
    /\ UNCHANGED <<earlierVars, wsVars, overviewVars, rainVars, trendVars>>

\* line 43, line 44, line 45 (with the check of lines 47-57 that follows it)
ReadCurrent == ReadSection(1)
ReadHourly  == ReadSection(2)
ReadDaily   == ReadSection(3)

\* the provider publishes its next model run
ProviderUpdates ==
    /\ upstream.version < MaxPayloads
    /\ upstream' = [upstream EXCEPT !.version = @ + 1]
    /\ UNCHANGED sections
    /\ UNCHANGED <<earlierVars, wsVars, overviewVars, rainVars, trendVars>>

\* the provider (or the network path to it) goes down or comes back
ProviderFlips ==
    /\ upstream' = [upstream EXCEPT !.up = ~@]
    /\ UNCHANGED sections
    /\ UNCHANGED <<earlierVars, wsVars, overviewVars, rainVars, trendVars>>

InitReads ==
    /\ upstream \in [version : {1}, up : BOOLEAN]
    /\ sections = <<>>
    /\ EarlierUnused
    /\ WsUnused /\ OverviewUnused /\ RainUnused /\ TrendUnused

NextReads == ReadCurrent \/ ReadHourly \/ ReadDaily \/ ProviderUpdates \/ ProviderFlips

SpecReads == InitReads /\ [][NextReads]_vars

\* C27: within one generate_bulletin call the current, hourly and daily
\* tables are parsed from one and the same upstream response: no
\* interleaving of upstream changes or failures between the section reads
\* produces a bulletin that mixes sections of different payloads, or an
\* 'ok' bulletin where a section comes from a failed fetch.
C27_OneResponsePerBulletin ==
    (Len(sections) = 3 /\ ReadsStatus(sections) = "ok")
    => \A i \in 1..3 : /\ sections[i].payload # <<>>
                       /\ sections[i].payload = sections[1].payload

-----------------------------------------------------------------------------
(* daily_overview.py: today's extremes and the alert sub-block (SpecOverview) *)

\* utils.py lines 9-18
HEAT_ALERT == 32
RAIN_ALERT == 10
WIND_ALERT == 8
COLD_ALERT == 20
UV_ALERT   == 4

GT(c, th) == c.k = "num" /\ c.v > th

\* the numbers of column f, NaN skipped as the pandas reductions skip it
ColumnNumbers(rows, f) == {i \in 1..Len(rows) : rows[i][f].k = "num"}

RECURSIVE ColumnSum(_, _, _)
ColumnSum(rows, f, i) ==
    IF i > Len(rows) THEN 0
    ELSE (IF rows[i][f].k = "num" THEN rows[i][f].v ELSE 0) + ColumnSum(rows, f, i + 1)

\* Series.max() and Series.min(): NaN when the column holds no number
ColumnMax(rows, f) ==
    LET idx == ColumnNumbers(rows, f)
    IN  IF idx = {} THEN NaNCell
        ELSE Num(CHOOSE x \in {rows[i][f].v : i \in idx} : \A j \in idx : rows[j][f].v <= x)
ColumnMin(rows, f) ==
    LET idx == ColumnNumbers(rows, f)
    IN  IF idx = {} THEN NaNCell
        ELSE Num(CHOOSE x \in {rows[i][f].v : i \in idx} : \A j \in idx : rows[j][f].v >= x)

\* Series.mean(), kept exact as sum and count
ColumnMean(rows, f) ==
    [sum |-> ColumnSum(rows, f, 1), n |-> Cardinality(ColumnNumbers(rows, f))]
MeanGE(mean, th) == mean.n > 0 /\ mean.sum >= th * mean.n

\* lines 24-28: the rows whose local date is today
RECURSIVE TodayHours(_, _)
TodayHours(rows, i) ==
    IF i > Len(rows) THEN <<>>
    ELSE (IF rows[i].day = 0 THEN <<rows[i]>> ELSE <<>>) \o TodayHours(rows, i + 1)

\* lines 36-44: the rain service's 24-hour total when it is a number,
\* else the sum of today's hourly precipitation
total_rain(today_hours, rain_24h) ==
    IF rain_24h # <<>> /\ IsNumber(rain_24h[1]) THEN rain_24h[1]
    ELSE Num(ColumnSum(today_hours, "precipitation_mm", 1))

\* lines 103-117: the five threshold alerts of the sub-block, by tag (the
\* heat-index and RealFeel alerts that follow them compare derived indices,
\* not an extreme of the day, and are not among the tags)
today_alerts(today_hours, rain_24h) ==
    IF today_hours = <<>> THEN {}
    ELSE (IF GT(total_rain(today_hours, rain_24h), RAIN_ALERT) THEN {"rain"} ELSE {})
         \cup (IF GT(ColumnMax(today_hours, "wind_speed_ms"), WIND_ALERT) THEN {"wind"} ELSE {})
         \cup (IF GE(ColumnMax(today_hours, "temp_c"), HEAT_ALERT) THEN {"heat"} ELSE {})
         \cup (IF LE(ColumnMin(today_hours, "temp_c"), COLD_ALERT) THEN {"cold"} ELSE {})
         \cup (IF MeanGE(ColumnMean(today_hours, "uv_index"), UV_ALERT) THEN {"uv"} ELSE {})

generate_daily_overview(in) ==
    LET today_hours == TodayHours(in.hourly_df, 1)
    IN  [today_hours |-> today_hours,
         total_rain  |-> total_rain(today_hours, in.rain_24h),
         max_wind    |-> ColumnMax(today_hours, "wind_speed_ms"),
         max_temp    |-> ColumnMax(today_hours, "temp_c"),
         min_temp    |-> ColumnMin(today_hours, "temp_c"),
         uv_idx      |-> ColumnMean(today_hours, "uv_index"),
         alerts      |-> today_alerts(today_hours, in.rain_24h)]

OverviewRow(day, t, w, p, u) ==
    [day |-> day, temp_c |-> t, wind_speed_ms |-> w, precipitation_mm |-> p, uv_index |-> u]

OverviewRows ==
    {OverviewRow(0, Num(32), Num(8), Num(10), Num(4)),
     OverviewRow(0, Num(33), Num(9), Num(11), Num(5)),
     OverviewRow(0, Num(31), Num(7), Num(9), Num(3)),
     OverviewRow(0, Num(20), Num(3), Num(0), Num(3)),
     OverviewRow(0, Num(21), Num(3), Num(1), NaNCell),
     OverviewRow(0, Num(19), Num(8), Num(5), Num(4)),
     OverviewRow(0, NaNCell, NaNCell, NaNCell, NaNCell),
     OverviewRow(1, Num(40), Num(20), Num(50), Num(9))}

OverviewInputs ==
    [hourly_df : SeqsUpTo(OverviewRows, MaxTodayRows),
     rain_24h  : {<<>>, <<Num(9)>>, <<Num(10)>>, <<Num(11)>>}]

InitOverview ==
    /\ overview_in \in OverviewInputs
    /\ overview_out = <<>>
    /\ EarlierUnused
    /\ WsUnused /\ ReadsUnused /\ RainUnused /\ TrendUnused

GenerateDailyOverview ==
    /\ overview_out = <<>>
    /\ overview_out' = <<generate_daily_overview(overview_in)>>
    /\ UNCHANGED overview_in
    /\ UNCHANGED <<earlierVars, wsVars, readVars, rainVars, trendVars>>

NextOverview == GenerateDailyOverview

SpecOverview == InitOverview /\ [][NextOverview]_vars

\* C26: when today has at least one hourly record, the alert sub-block
\* contains the heat alert iff the day's max temperature >= 32, the rain
\* alert iff the day's rain >= 10 mm, the wind alert iff the max wind >= 8
\* m/s, the cold alert iff the min temperature <= 20 and the UV alert iff
\* UV >= 4, every threshold inclusive at its boundary value.
C26_AlertThresholdsInclusive ==
    (overview_out # <<>> /\ overview_out[1].today_hours # <<>>)
    => LET o == overview_out[1]
       IN  /\ "heat" \in o.alerts <=> GE(o.max_temp, 32)
           /\ "rain" \in o.alerts <=> GE(o.total_rain, 10)
           /\ "wind" \in o.alerts <=> GE(o.max_wind, 8)
           /\ "cold" \in o.alerts <=> LE(o.min_temp, 20)
           /\ "uv" \in o.alerts <=> MeanGE(o.uv_idx, 4)

-----------------------------------------------------------------------------
(* rain_openmeteo.py: the rolling 24-hour series, and the 24-hour table of  *)
(* hourly_forecast.py that prints it (SpecRain).                            *)
(* A timestamp is [h, off]: h is the hour it is written with (hours since   *)
(* today 00:00 on the writer's clock), off is <<>> for a string without a   *)
(* UTC offset and <<o>> for one ending in +o:00.  List indices are those of *)
(* the code, from 0.                                                        *)

\* the ICT offset of _build_now_iso_local_hour and of _ensure_ts_local
ICT == 7

\* the length of the rolling series
HOURS_24 == 24

\* the rain that falls at the place during the hour h of the ICT clock
RainAt(h) == IF (h + 48) % 3 = 0 THEN 0 ELSE ((h + 48) % 7) + 1

Timestamp(h, off) == [h |-> h, off |-> off]

\* lines 64-69: the current ICT hour, written with its offset
build_now_iso_local_hour(now_h) == Timestamp(now_h, <<ICT>>)

\* lines 14-28: 'YYYY-MM-DDTHH:00' of the time as written, the offset dropped
hour_key(ts) == ts.h

\* the instant a timestamp with an offset denotes, in hours UTC
Instant(ts) == ts.h - ts.off[1]

\* datetime subtraction raises TypeError between a naive and an aware value
SubtractRaises(times, target) ==
    \E i \in 1..Len(times) : (times[i].off = <<>>) # (target.off = <<>>)

Distance(a, b) == IF a >= b THEN a - b ELSE b - a

\* the first index whose hour key equals key, <<>> when there is none
FirstKeyMatch(times, key) ==
    LET hits == {i \in 1..Len(times) : hour_key(times[i]) = key}
    IN  IF hits = {} THEN <<>>
        ELSE <<(CHOOSE i \in hits : \A j \in hits : i <= j) - 1>>

\* min(range(len(times)), key=...): the first index at the least distance
NearestIndex(times, target) ==
    LET d(i) == Distance(Instant(times[i]), Instant(target))
        best == {i \in 1..Len(times) : \A j \in 1..Len(times) : d(i) <= d(j)}
    IN  (CHOOSE i \in best : \A j \in best : i <= j) - 1

\* lines 31-61
closest_index_iso(times, target) ==
    IF times = <<>> THEN 0
    ELSE IF ~SubtractRaises(times, target) THEN NearestIndex(times, target)
    ELSE LET m == FirstKeyMatch(times, hour_key(target))
         IN  IF m # <<>> THEN m[1] ELSE 0

\* lines 143-155 (and 92-104): the exact key match first, else the closest
start_index(times, now_iso) ==
    LET m == FirstKeyMatch(times, hour_key(now_iso))
    IN  IF m # <<>> THEN m[1] ELSE closest_index_iso(times, now_iso)

\* precip[a:a + HOURS_24] for a >= 0
Slice(precip, a) ==
    [j \in 1..(IF Len(precip) - a <= 0 THEN 0
               ELSE IF Len(precip) - a < HOURS_24 THEN Len(precip) - a
               ELSE HOURS_24) |-> precip[a + j]]

\* float(x) raises on None and on a string that is no number
FloatFails(c) == c.k \in {"none", "str"}

Zeros(n) == [j \in 1..n |-> Num(0)]

\* lines 161-163
no_padding(seq) == seq
pad_to_24(seq) ==
    IF Len(seq) < HOURS_24 THEN seq \o Zeros(HOURS_24 - Len(seq)) ELSE seq

RECURSIVE CellSum(_, _)
CellSum(seq, i) == IF i > Len(seq) THEN 0 ELSE seq[i].v + CellSum(seq, i + 1)

Rain24(hourly, start) ==
    [hourly |-> hourly, total_24h |-> CellSum(hourly, 1), start_idx |-> start]

\* lines 116-170; start_idx is kept beside the result, <<>> when the call
\* returned before computing one
get_precipitation_24h(resp, now_h) ==
    IF resp.fetch # "ok" \/ resp.times = <<>> \/ resp.precip = <<>>
    THEN Rain24(Zeros(HOURS_24), <<>>)
    ELSE LET start == start_index(resp.times, build_now_iso_local_hour(now_h))
             part  == Slice(resp.precip, start)
         IN  IF \E j \in 1..Len(part) : FloatFails(part[j])
             THEN Rain24(Zeros(HOURS_24), <<start>>)
             ELSE Rain24(pad_to_24(part), <<start>>)

\* lines 72-113
get_precipitation_current(resp, now_h) ==
    IF resp.fetch # "ok" \/ resp.times = <<>> \/ resp.precip = <<>>
    THEN [value |-> Num(0), idx |-> <<>>]
    ELSE LET idx == start_index(resp.times, build_now_iso_local_hour(now_h))
         IN  [value |-> IF idx >= Len(resp.precip) \/ FloatFails(resp.precip[idx + 1])
                        THEN Num(0) ELSE resp.precip[idx + 1],
              idx |-> <<idx>>]

\* trend_10days.py lines 15-32: a timestamp without an offset is taken as
\* UTC and converted to ICT
ensure_ts_local(ts) == ts + ICT

\* hourly_forecast.py lines 52-53: the first 24 rows by ts_local
Head24(table) == [i \in 1..(IF Len(table) < HOURS_24 THEN Len(table) ELSE HOURS_24) |-> table[i]]

\* hourly_forecast.py lines 20-30, for a row that has precipitation_mm
normalize_rain_row(row) == safe_float(row.precipitation_mm, Num(0))

\* hourly_forecast.py lines 64-86 and 109: the lines of the block, each with
\* the time it prints (%H:%M of ts_local) and its rain
generate_hourly_forecast(table, rain_hourly_vals) ==
    LET next_24 == Head24(table)
        line(i) ==
            [ts_local |-> ensure_ts_local(next_24[i].ts),
             ts_txt   |-> ensure_ts_local(next_24[i].ts) % 24,
             rain_h   |-> IF rain_hourly_vals # <<>> /\ i <= Len(rain_hourly_vals)
                          THEN safe_float(rain_hourly_vals[i], Num(0))
                          ELSE normalize_rain_row(next_24[i])]
        lines == [i \in 1..Len(next_24) |-> line(i)]
    IN  [lines |-> lines,
         rain_hours |-> Cardinality({i \in 1..Len(lines) : GT(lines[i].rain_h, 0)})]

\* the provider's answer to the rain request (timezone=auto): n_times hours
\* from today 00:00 on the clock of the place, whose UTC offset is tz
ProviderTimes(n, written, tz) ==
    [i \in 1..n |-> Timestamp(i - 1, IF written = "naive" THEN <<>> ELSE <<tz>>)]
ProviderPrecip(n, tz, bad) ==
    [i \in 1..n |-> IF bad = <<i - 1>> THEN NoneCell ELSE Num(RainAt(i - 1 - tz + ICT))]

RainResponse(in) ==
    [fetch  |-> in.fetch,
     times  |-> ProviderTimes(in.n_times, in.written, in.tz),
     precip |-> ProviderPrecip(in.n_precip, in.tz, in.bad)]

\* the hourly table (timezone Asia/Ho_Chi_Minh): rows from today 00:00 ICT
HourlyTable(n) ==
    [i \in 1..n |-> [ts |-> i - 1, precipitation_mm |-> Num(RainAt(i - 1))]]

SeriesLengths == {0, 2, MaxProviderHours - 18, MaxProviderHours}

RainInputs ==
    [fetch : {"ok", "failed"}, n_times : SeriesLengths, n_precip : SeriesLengths,
     written : {"naive", "offset"}, tz : {ICT, ICT + 2},
     bad : {<<>>, <<0>>, <<12>>}, now_h : {-2, 0, 1, 5, 13, 29, 40, MaxProviderHours + 2},
     n_rows : {0, 3, 30}]

InitRain ==
    /\ rain_in \in RainInputs
    /\ rain_out = <<>>
    /\ EarlierUnused
    /\ WsUnused /\ ReadsUnused /\ OverviewUnused /\ TrendUnused

\* get_precipitation_summary (lines 206-235) as generate_bulletin uses it
\* (bulletin.py lines 71-75), then the 24-hour block (bulletin.py lines
\* 119-128)
RainSummary ==
    /\ rain_out = <<>>
    /\ LET resp == RainResponse(rain_in)
           r24  == get_precipitation_24h(resp, rain_in.now_h)
       IN  rain_out' =
             <<[r24     |-> r24,
                current |-> get_precipitation_current(resp, rain_in.now_h),
                block   |-> generate_hourly_forecast(HourlyTable(rain_in.n_rows), r24.hourly)]>>
    /\ UNCHANGED rain_in
    /\ UNCHANGED <<earlierVars, wsVars, readVars, overviewVars, trendVars>>

NextRain == RainSummary

SpecRain == InitRain /\ [][NextRain]_vars

-----------------------------------------------------------------------------
(* Claims about the rain service and the 24-hour table (SpecRain) *)

\* C21: get_precipitation_24h always returns an 'hourly' list of exactly 24
\* numbers - for missing or empty provider arrays, fewer than 24 points
\* after the start index, a start index at or beyond the end of the
\* precipitation array, non-numeric entries and a failed fetch alike; the
\* elements beyond the provider's remaining points are 0.0 (those within
\* them are the provider's, unless the call fell back to all zeros) and
\* total_24h is the sum of the 24 elements.
C21_AlwaysTwentyFourNumbers ==
    rain_out # <<>> =>
        LET r      == rain_out[1].r24
            precip == RainResponse(rain_in).precip
            fell_back ==
                \/ r.start_idx = <<>>
                \/ \E j \in 1..HOURS_24 :
                      /\ r.start_idx[1] + j <= Len(precip)
                      /\ FloatFails(precip[r.start_idx[1] + j])
        IN  /\ Len(r.hourly) = 24
            /\ \A j \in 1..Len(r.hourly) : r.hourly[j].k = "num"
            /\ r.total_24h = CellSum(r.hourly, 1)
            /\ \A j \in 1..Len(r.hourly) :
                 IF fell_back \/ r.start_idx[1] + j > Len(precip)
                 THEN r.hourly[j] = Num(0)
                 ELSE r.hourly[j] = precip[r.start_idx[1] + j]

\* C21 witness: seventeen provider points remain after the start index, the
\* first of them with rain, and the last seven elements are the padding
C21_ShortSlicePadded ==
    /\ rain_out # <<>>
    /\ rain_in.fetch = "ok" /\ rain_in.bad = <<>>
    /\ rain_out[1].r24.start_idx = <<13>>
    /\ Len(RainResponse(rain_in).precip) = 30
    /\ rain_out[1].r24.hourly[1].v > 0
    /\ rain_out[1].r24.hourly[18] = Num(0)
    /\ rain_out[1].r24.total_24h > 0

\* the instant of a provider timestamp: one written without an offset is on
\* the clock of the place (timezone=auto)
AbsoluteHour(ts, tz) == ts.h - (IF ts.off = <<>> THEN tz ELSE ts.off[1])

\* index idx (from 0) is the exact key match when there is one, else an
\* index nearest in absolute time to the current local hour
StartsAtMatchOrNearest(idx, times, now_iso, tz) ==
    LET m == FirstKeyMatch(times, hour_key(now_iso))
        d(i) == Distance(AbsoluteHour(times[i], tz), AbsoluteHour(now_iso, ICT))
    IN  IF m # <<>> THEN idx = m[1]
        ELSE /\ idx + 1 \in 1..Len(times)
             /\ \A j \in 1..Len(times) : d(idx + 1) <= d(j)

\* C24: get_precipitation_24h and get_precipitation_current start at the
\* first hourly index whose hour-truncated key equals the current local
\* hour; when no index matches exactly they start at the index whose
\* timestamp is nearest in absolute time to the current local hour, for
\* provider timestamps written with or without a UTC offset.
C24_StartAtMatchOrNearest ==
    (rain_out # <<>> /\ rain_out[1].r24.start_idx # <<>>)
    => LET times == RainResponse(rain_in).times
           now   == build_now_iso_local_hour(rain_in.now_h)
       IN  /\ StartsAtMatchOrNearest(rain_out[1].r24.start_idx[1], times, now, rain_in.tz)
           /\ rain_out[1].current.idx # <<>>
           /\ StartsAtMatchOrNearest(rain_out[1].current.idx[1], times, now, rain_in.tz)

\* C29: in the 24-hour block the rain printed on line i is the rain of the
\* hour whose time is printed on line i: the rolling series and the first
\* 24 rows of the hourly table refer to the same hours index by index, and
\* the 'rain hours' counter counts exactly the displayed hours with rain > 0.
\* Stated for a place on the ICT clock whose rain request succeeded in full.
C29_RainBelongsToPrintedHour ==
    (/\ rain_out # <<>>
     /\ rain_in.fetch = "ok" /\ rain_in.bad = <<>> /\ rain_in.tz = ICT
     /\ rain_in.n_times = MaxProviderHours /\ rain_in.n_precip = MaxProviderHours
     /\ rain_in.now_h \in 0..23)
    => LET block == rain_out[1].block
           table == HourlyTable(rain_in.n_rows)
       IN  /\ \A i \in 1..Len(block.lines) :
                 /\ block.lines[i].rain_h = Num(RainAt(block.lines[i].ts_local))
                 /\ rain_out[1].r24.start_idx[1] + (i - 1) = table[i].ts
           /\ block.rain_hours =
                 Cardinality({i \in 1..Len(block.lines) : RainAt(block.lines[i].ts_local) > 0})

-----------------------------------------------------------------------------
(* trend_10days.py: the daily aggregation and the 10-day lines (SpecTrend). *)
(* ts_local is counted in hours since today 00:00 ICT: its date is          *)
(* ts_local \div 24 (0 is today) and its hour of the day ts_local % 24.     *)
(* A mean is kept exact as sum and count.                                   *)

\* days=10 of the call at line 144, and the least number of day records
WINDOW_DAYS == 10
MIN_DAYS    == 3

DateOf(ts) == ts \div 24
HourOf(ts) == ts % 24

Sample(day, hour, precip, solar, uv) ==
    [ts_local |-> day * 24 + hour, precipitation_mm |-> Num(precip),
     solar_radiation_wm2 |-> solar, uv_index |-> uv]

\* line 82: the daytime rows
IsDaytimeExclusive(hour) == hour > 6 /\ hour < 18
IsDaytime(hour) == hour >= 6 /\ hour <= 18

Numeric(S, f) == {x \in S : x[f].k = "num"}

RECURSIVE SumOver(_, _)
SumOver(S, f) ==
    IF S = {} THEN 0
    ELSE LET x == CHOOSE y \in S : TRUE
         IN  (IF x[f].k = "num" THEN x[f].v ELSE 0) + SumOver(S \ {x}, f)

NaNAgg == [k |-> "nan", sum |-> 0, n |-> 0]

\* the "mean" and "max" reductions of a group, NaN skipped; NaN when the
\* group holds no number
MeanAgg(S, f) ==
    IF Numeric(S, f) = {} THEN NaNAgg
    ELSE [k |-> "num", sum |-> SumOver(S, f), n |-> Cardinality(Numeric(S, f))]
MaxAgg(S, f) ==
    IF Numeric(S, f) = {} THEN NaNAgg
    ELSE [k |-> "num", n |-> 1,
          sum |-> CHOOSE v \in {x[f].v : x \in Numeric(S, f)} :
                      \A y \in Numeric(S, f) : y[f].v <= v]

\* lines 110-115: day.where(pd.notnull(day), fallback)
Where(day, fallback) == IF day.k # "nan" THEN day ELSE fallback

RECURSIVE Ascending(_)
Ascending(S) ==
    IF S = {} THEN <<>>
    ELSE LET least == CHOOSE x \in S : \A y \in S : x <= y
         IN  <<least>> \o Ascending(S \ {least})

\* line 119: head(days)
all_rows(seq, days) == seq
head(seq, days) == [i \in 1..(IF Len(seq) < days THEN Len(seq) ELSE days) |-> seq[i]]

\* lines 64-119
aggregate_daily_from_hourly(hourly, start_ts_ict, days) ==
    LET end_ts_ict == start_ts_ict + days * 24
        df_10      == {x \in hourly : x.ts_local >= start_ts_ict /\ x.ts_local < end_ts_ict}
        daytime    == {x \in df_10 : IsDaytime(HourOf(x.ts_local))}
        OnDate(S, d) == {x \in S : DateOf(x.ts_local) = d}
        day_value(d, agg) == IF OnDate(daytime, d) = {} THEN NaNAgg ELSE agg
        record(d) ==
            [date |-> d,
             precipitation_mm |-> Num(SumOver(OnDate(df_10, d), "precipitation_mm")),
             solar_radiation_wm2 |->
                 Where(day_value(d, MeanAgg(OnDate(daytime, d), "solar_radiation_wm2")),
                       MeanAgg(OnDate(df_10, d), "solar_radiation_wm2")),
             uv_index |->
                 Where(day_value(d, MaxAgg(OnDate(daytime, d), "uv_index")),
                       MeanAgg(OnDate(df_10, d), "uv_index"))]
        dates == Ascending({DateOf(x.ts_local) : x \in df_10})
    IN  head([i \in 1..Len(dates) |-> record(dates[i])], days)

\* the external day-indexed series: the value of day d (0 is today)
ExtRain(d) == 50 + d

PaddedEntry == [date |-> <<>>, precipitation |-> Num(0)]

\* rain_openmeteo.py lines 173-203: always ten entries
get_precipitation_10d(ext) ==
    IF ext.fetch # "ok" \/ (ext.null # <<>> /\ ext.null[1] < ext.n)
    THEN [i \in 1..10 |-> PaddedEntry]
    ELSE [i \in 1..10 |-> IF i <= ext.n
                           THEN [date |-> <<i - 1>>, precipitation |-> Num(ExtRain(i - 1))]
                           ELSE PaddedEntry]

EmptyTrend == [lines |-> <<>>, daily |-> <<>>, stats |-> <<>>]

\* lines 122-219
generate_trend_10days(hourly, now_ts, rain_10d) ==
    IF hourly = {} THEN EmptyTrend
    ELSE LET min_src  == CHOOSE t \in {x.ts_local : x \in hourly} :
                              \A x \in hourly : t <= x.ts_local
             start_ts == IF now_ts >= min_src THEN now_ts ELSE min_src
             daily    == aggregate_daily_from_hourly(hourly, start_ts, WINDOW_DAYS)
             rain_total(i) ==
                 IF rain_10d # <<>> /\ i <= Len(rain_10d)
                 THEN safe_float(rain_10d[i].precipitation, daily[i].precipitation_mm)
                 ELSE daily[i].precipitation_mm
             lines == [i \in 1..Len(daily) |->
                          [date |-> daily[i].date, rain_total |-> rain_total(i)]]
         IN  IF Len(daily) < MIN_DAYS THEN EmptyTrend
             ELSE [lines |-> lines, daily |-> daily,
                   stats |-> <<[rain_days |->
                       Cardinality({i \in 1..Len(lines) : GT(lines[i].rain_total, 0)})]>>]

\* the hourly samples of one date, by pattern
DaySamples(pattern, d) ==
    CASE pattern = "none"    -> {}
      [] pattern = "morning" -> {Sample(d, 3, 1, Num(2), Num(1))}
      [] pattern = "night"   -> {Sample(d, 3, 1, Num(2), Num(1)), Sample(d, 20, 0, Num(4), Num(3))}
      [] pattern = "full"    -> {Sample(d, 3, 1, Num(2), Num(1)), Sample(d, 6, 2, Num(100), Num(2)),
                                 Sample(d, 12, 0, Num(800), Num(9)), Sample(d, 18, 3, Num(60), Num(4)),
                                 Sample(d, 20, 0, Num(4), Num(3))}
      [] pattern = "no_day_solar" -> {Sample(d, 3, 1, Num(2), Num(1)), Sample(d, 12, 2, NaNCell, Num(9)),
                                      Sample(d, 20, 0, Num(4), Num(3))}
      [] pattern = "no_day_uv"    -> {Sample(d, 5, 1, Num(2), Num(1)), Sample(d, 18, 2, Num(60), NaNCell),
                                      Sample(d, 19, 0, Num(4), Num(3))}
      [] pattern = "edge"    -> {Sample(d, 5, 4, Num(2), Num(7)), Sample(d, 6, 0, Num(100), Num(2)),
                                 Sample(d, 19, 1, Num(6), Num(8))}

\* the hourly table: today and tomorrow by pattern, the days 2..upto in
\* full but for the date gap, the last date of a window that starts in the
\* course of today, and the dates after it
HourlyOf(in) ==
    DaySamples(in.today, 0) \cup DaySamples(in.tomorrow, 1)
    \cup UNION {DaySamples("full", d) : d \in {e \in 2..in.upto : <<e>> # in.gap}}
    \cup DaySamples(in.last, WINDOW_DAYS)
    \cup UNION {DaySamples("full", d) : d \in (WINDOW_DAYS + 1)..MaxTrendDay}

TrendInputs ==
    [today : {"none", "morning", "night", "full", "no_day_solar", "no_day_uv", "edge"},
     tomorrow : {"none", "night", "full", "no_day_uv"},
     upto : {1, 3, WINDOW_DAYS - 1}, gap : {<<>>, <<2>>},
     last : {"none", "morning", "full"},
     now_ts : {0, 13},
     ext : {[fetch |-> "failed", n |-> 0, null |-> <<>>], [fetch |-> "ok", n |-> 10, null |-> <<>>],
            [fetch |-> "ok", n |-> 3, null |-> <<>>], [fetch |-> "ok", n |-> 10, null |-> <<1>>]}]

InitTrend ==
    /\ trend_in \in TrendInputs
    /\ trend_out = <<>>
    /\ EarlierUnused
    /\ WsUnused /\ ReadsUnused /\ OverviewUnused /\ RainUnused

\* bulletin.py lines 130-136, with the series of lines 71-75
GenerateTrend ==
    /\ trend_out = <<>>
    /\ trend_out' = <<generate_trend_10days(HourlyOf(trend_in), trend_in.now_ts,
                                            get_precipitation_10d(trend_in.ext))>>
    /\ UNCHANGED trend_in
    /\ UNCHANGED <<earlierVars, wsVars, readVars, overviewVars, rainVars>>

NextTrend == GenerateTrend

SpecTrend == InitTrend /\ [][NextTrend]_vars

-----------------------------------------------------------------------------
(* Claims about the 10-day trend (SpecTrend) *)

\* the start of the window of a call, and the dates that have a sample
\* inside [start, start + 10 days)
TrendStart(hourly, now_ts) ==
    IF \E x \in hourly : x.ts_local <= now_ts THEN now_ts
    ELSE CHOOSE t \in {x.ts_local : x \in hourly} : \A x \in hourly : t <= x.ts_local
InWindow(hourly, now_ts) ==
    IF hourly = {} THEN {}
    ELSE LET start == TrendStart(hourly, now_ts)
         IN  {x \in hourly : x.ts_local >= start /\ x.ts_local < start + 10 * 24}
WindowDates(window) == {DateOf(x.ts_local) : x \in window}

\* C22: the daily aggregation used by generate_trend_10days yields between
\* 3 and 10 day records whenever at least 3 local calendar dates inside
\* [start, start + 10 days) have a sample, and the empty result (no lines,
\* empty table, empty statistics) otherwise; a date without a contributing
\* hourly record never appears, and the dates are distinct and ascending.
C22_ThreeToTenDayRecords ==
    trend_out # <<>> =>
        LET out   == trend_out[1]
            dates == WindowDates(InWindow(HourlyOf(trend_in), trend_in.now_ts))
        IN  /\ IF Cardinality(dates) >= 3
               THEN /\ Len(out.daily) >= 3 /\ Len(out.daily) <= 10
                    /\ Len(out.lines) = Len(out.daily)
                    /\ out.stats # <<>>
               ELSE out.lines = <<>> /\ out.daily = <<>> /\ out.stats = <<>>
            /\ \A i \in 1..Len(out.daily) : out.daily[i].date \in dates
            /\ \A i, j \in 1..Len(out.daily) :
                 i < j => out.daily[i].date < out.daily[j].date

\* C22 witness: eleven dates of the window have samples but for date 2,
\* which has none: ten records, none of them for date 2
C22_GapDateDropped ==
    /\ trend_out # <<>>
    /\ trend_in.gap = <<2>> /\ trend_in.now_ts = 13
    /\ Cardinality(WindowDates(InWindow(HourlyOf(trend_in), trend_in.now_ts))) = 10
    /\ Len(trend_out[1].daily) = 10
    /\ trend_out[1].daily[3].date = 3
    /\ trend_out[1].daily[10].date = 10

\* C25: for every date of the result the solar-radiation and UV fields are
\* the daytime aggregate (local hours 6..18 inclusive: mean solar, max UV)
\* when the date has at least one daytime sample of the field, and the
\* whole-day aggregate otherwise (for both fields the mean of all the
\* date's samples in the window); the fallback is decided per date and per
\* field, so each field of each date is determined by that date's samples
\* of that field alone.
C25_DaytimePreferredPerField ==
    trend_out # <<>> =>
        LET window == InWindow(HourlyOf(trend_in), trend_in.now_ts)
        IN  \A i \in 1..Len(trend_out[1].daily) :
            LET rec   == trend_out[1].daily[i]
                whole == {x \in window : DateOf(x.ts_local) = rec.date}
                day   == {x \in whole : HourOf(x.ts_local) \in 6..18}
            IN  /\ rec.solar_radiation_wm2 =
                     IF Numeric(day, "solar_radiation_wm2") # {}
                     THEN MeanAgg(day, "solar_radiation_wm2")
                     ELSE MeanAgg(whole, "solar_radiation_wm2")
                /\ rec.uv_index =
                     IF Numeric(day, "uv_index") # {}
                     THEN MaxAgg(day, "uv_index")
                     ELSE MeanAgg(whole, "uv_index")

\* C25 witness: today's only daytime sample has no solar value, so today's
\* solar is the whole-day mean (2 + 4) / 2 while today's UV is the daytime
\* maximum 9, and tomorrow's fields are both daytime aggregates
C25_OneFieldFallsBack ==
    /\ trend_out # <<>>
    /\ trend_in.today = "no_day_solar" /\ trend_in.tomorrow = "full" /\ trend_in.now_ts = 0
    /\ Len(trend_out[1].daily) >= 3
    /\ trend_out[1].daily[1].solar_radiation_wm2 = [k |-> "num", sum |-> 6, n |-> 2]
    /\ trend_out[1].daily[1].uv_index = [k |-> "num", sum |-> 9, n |-> 1]
    /\ trend_out[1].daily[2].solar_radiation_wm2 = [k |-> "num", sum |-> 960, n |-> 3]
    /\ trend_out[1].daily[2].uv_index = [k |-> "num", sum |-> 9, n |-> 1]

\* C23: day i's precipitation total is the external series' value at index
\* i when the external provider actually supplied a value for that day, and
\* the internally summed hourly value otherwise (including when the
\* external series is shorter or its fetch failed); index i of the external
\* series denotes the same calendar date as row i of the aggregation result.
C23_ExternalRainWhenSupplied ==
    trend_out # <<>> =>
        \A i \in 1..Len(trend_out[1].lines) :
            LET ext      == trend_in.ext
                supplied == ext.fetch = "ok" /\ i <= ext.n /\ ext.null # <<i - 1>>
            IN  IF supplied
                THEN /\ trend_out[1].lines[i].rain_total = Num(ExtRain(i - 1))
                     /\ trend_out[1].daily[i].date = i - 1
                ELSE trend_out[1].lines[i].rain_total = trend_out[1].daily[i].precipitation_mm

====
